---- MODULE Spec2Model ----
(***************************************************************************)
(* Model of the medical-chatbot backend (python_backend): the chat         *)
(* orchestration of routes/chat.py and services/perplexity.py, the         *)
(* similarity-search gateway of services/db_operations.py and              *)
(* routes/vector_search.py, and the search-result filters.                 *)
(*                                                                         *)
(* Text is a sequence of one-character strings, so that strip(), lower(),  *)
(* prefix matching and newline-joined merging are computed, not assumed.   *)
(* The fixed literal fragments of a system prompt are single symbols.      *)
(***************************************************************************)
EXTENDS Integers, Sequences, FiniteSets, TLC

\* ------------------------------------------------------------------------
\* Bounds of the model
\* ------------------------------------------------------------------------
MaxHistory == 3

MaxResults == 2

MaxRequests == 2

\* the longest vector handed to cosine_similarity
MaxVector == 2

\* the request threads that call get_embedding_service, and the calls of each
MaxCallers == 2

MaxCalls == 2

\* the longest list handed to generate_embeddings_batch
MaxBatch == 2

\* the most matches handed to build_patient_memory_prompt_from_vector
MaxMatches == 3

\* ------------------------------------------------------------------------
\* Text
\* ------------------------------------------------------------------------
NL == "\n"

Whitespace == {" ", "\t", "\n", "\r"}

UpperCase == {"A", "B", "C", "D", "E", "F", "G", "H", "I", "J", "K", "L", "M", "N", "O", "P", "Q", "R", "S", "T", "U", "V", "W", "X", "Y", "Z"}

LowerOf ==
  [c \in UpperCase |-> CASE c = "A" -> "a"
                         [] c = "B" -> "b"
                         [] c = "C" -> "c"
                         [] c = "D" -> "d"
                         [] c = "E" -> "e"
                         [] c = "F" -> "f"
                         [] c = "G" -> "g"
                         [] c = "H" -> "h"
                         [] c = "I" -> "i"
                         [] c = "J" -> "j"
                         [] c = "K" -> "k"
                         [] c = "L" -> "l"
                         [] c = "M" -> "m"
                         [] c = "N" -> "n"
                         [] c = "O" -> "o"
                         [] c = "P" -> "p"
                         [] c = "Q" -> "q"
                         [] c = "R" -> "r"
                         [] c = "S" -> "s"
                         [] c = "T" -> "t"
                         [] c = "U" -> "u"
                         [] c = "V" -> "v"
                         [] c = "W" -> "w"
                         [] c = "X" -> "x"
                         [] c = "Y" -> "y"
                         [] c = "Z" -> "z"]

\* str.lower()
Lower(s) == [i \in 1..Len(s) |-> IF s[i] \in UpperCase THEN LowerOf[s[i]] ELSE s[i]]

RECURSIVE LStrip(_)
LStrip(s) == IF s # <<>> /\ s[1] \in Whitespace THEN LStrip(Tail(s)) ELSE s

RECURSIVE RStrip(_)
RStrip(s) ==
  IF s # <<>> /\ s[Len(s)] \in Whitespace THEN RStrip(SubSeq(s, 1, Len(s) - 1)) ELSE s

\* str.strip()
Strip(s) == RStrip(LStrip(s))

\* truthiness of a str: non-empty
Truthy(s) == s # <<>>

IsPrefix(p, s) == Len(p) <= Len(s) /\ SubSeq(s, 1, Len(p)) = p

\* The None of Python, for the enumerated preference values
None == "<None>"

\* None where a text is expected
NoneText == <<"<None>">>

hello == <<"h", "e", "l", "l", "o">>

hello_again == <<"h", "e", "l", "l", "o", " ", "a", "g", "a", "i", "n">>

fever == <<"f", "e", "v", "e", "r">>

\* ------------------------------------------------------------------------
\* services/perplexity.py: is_medical_query
\* ------------------------------------------------------------------------
casual_prefix_patterns ==
  { <<"h", "i">>,
    <<"h", "e", "l", "l", "o">>,
    <<"h", "e", "y">>,
    <<"g", "o", "o", "d", " ", "m", "o", "r", "n", "i", "n", "g">>,
    <<"g", "o", "o", "d", " ", "a", "f", "t", "e", "r", "n", "o", "o", "n">>,
    <<"g", "o", "o", "d", " ", "e", "v", "e", "n", "i", "n", "g">>,
    <<"g", "r", "e", "e", "t", "i", "n", "g", "s">>,
    <<"h", "o", "w", " ", "a", "r", "e", " ", "y", "o", "u">>,
    <<"h", "o", "w", "'", "r", "e", " ", "y", "o", "u">>,
    <<"h", "o", "w", " ", "r", " ", "u">>,
    <<"w", "h", "a", "t", "'", "s", " ", "u", "p">>,
    <<"w", "a", "s", "s", "u", "p">>,
    <<"s", "u", "p">>,
    <<"h", "o", "w", " ", "i", "s", " ", "i", "t", " ", "g", "o", "i", "n", "g">>,
    <<"h", "o", "w", "'", "s", " ", "i", "t", " ", "g", "o", "i", "n", "g">>,
    <<"h", "o", "w", " ", "a", "r", "e", " ", "t", "h", "i", "n", "g", "s">>,
    <<"m", "y", " ", "n", "a", "m", "e", " ", "i", "s">>,
    <<"i", " ", "a", "m">>,
    <<"i", "'", "m">>,
    <<"t", "h", "i", "s", " ", "i", "s">>,
    <<"i", "'", "m", " ", "c", "a", "l", "l", "e", "d">>,
    <<"t", "h", "e", "y", " ", "c", "a", "l", "l", " ", "m", "e">>,
    <<"p", "e", "o", "p", "l", "e", " ", "c", "a", "l", "l", " ", "m", "e">>,
    <<"w", "h", "o", " ", "a", "r", "e", " ", "y", "o", "u">>,
    <<"w", "h", "a", "t", " ", "a", "r", "e", " ", "y", "o", "u">>,
    <<"w", "h", "a", "t", " ", "i", "s", " ", "y", "o", "u", "r", " ", "n", "a", "m", "e">>,
    <<"y", "o", "u", "r", " ", "n", "a", "m", "e">>,
    <<"d", "o", " ", "y", "o", "u", " ", "k", "n", "o", "w", " ", "m", "e">>,
    <<"d", "o", " ", "y", "o", "u", " ", "k", "n", "o", "w", " ", "m", "y", " ", "n", "a", "m", "e">>,
    <<"d", "o", " ", "y", "o", "u", " ", "k", "n", "o", "w", " ", "w", "h", "o", " ", "i", " ", "a", "m">>,
    <<"d", "o", " ", "y", "o", "u", " ", "k", "n", "o", "w", " ", "w", "h", "e", "r", "e", " ", "i">>,
    <<"t", "e", "l", "l", " ", "m", "e", " ", "a", "b", "o", "u", "t", " ", "y", "o", "u", "r", "s", "e", "l", "f">>,
    <<"w", "h", "a", "t", " ", "d", "o", " ", "y", "o", "u", " ", "d", "o">>,
    <<"t", "h", "a", "n", "k", " ", "y", "o", "u">>,
    <<"t", "h", "a", "n", "k", "s">>,
    <<"t", "h", "x">>,
    <<"t", "y">>,
    <<"a", "p", "p", "r", "e", "c", "i", "a", "t", "e">>,
    <<"b", "y", "e">>,
    <<"g", "o", "o", "d", "b", "y", "e">>,
    <<"s", "e", "e", " ", "y", "o", "u">>,
    <<"t", "a", "l", "k", " ", "l", "a", "t", "e", "r">>,
    <<"g", "o", "t", "t", "a", " ", "g", "o">>,
    <<"n", "i", "c", "e", " ", "t", "o", " ", "m", "e", "e", "t", " ", "y", "o", "u">>,
    <<"p", "l", "e", "a", "s", "u", "r", "e">>,
    <<"g", "o", "o", "d", " ", "t", "o">>,
    <<"s", "o", "r", "r", "y">>,
    <<"m", "y", " ", "b", "a", "d">>,
    <<"e", "x", "c", "u", "s", "e", " ", "m", "e">>,
    <<"p", "a", "r", "d", "o", "n">> }

casual_whole_patterns ==
  { <<"o", "k">>,
    <<"o", "k", "a", "y">>,
    <<"y", "e", "s">>,
    <<"n", "o">>,
    <<"y", "e", "a", "h">>,
    <<"y", "e", "p">>,
    <<"n", "o", "p", "e">>,
    <<"s", "u", "r", "e">>,
    <<"a", "l", "r", "i", "g", "h", "t">>,
    <<"c", "o", "o", "l">> }

\* mutant: the text is lower-cased but not stripped
is_medical_query_NoStrip(question) ==
  LET lower_question == Lower(question)
  IN  ~ \/ \E p \in casual_prefix_patterns : IsPrefix(p, lower_question)
        \/ lower_question \in casual_whole_patterns

is_medical_query(question) ==
  LET lower_question == Strip(Lower(question))
  IN  ~ \/ \E p \in casual_prefix_patterns : IsPrefix(p, lower_question)
        \/ lower_question \in casual_whole_patterns

\* ------------------------------------------------------------------------
\* services/perplexity.py: build_system_prompt
\* A dict is a function on its keys; the absent user_context (None) and the
\* empty dict are both falsy and are the function with the empty domain.
\* ------------------------------------------------------------------------
EmptyDict == <<>>

\* dict.get(key, default)
Get(d, key, default) == IF key \in DOMAIN d THEN d[key] ELSE default

\* profile.get(key) as a condition: present and non-empty
ProfileHas(profile, key) ==
  key \in DOMAIN profile /\ profile[key] # NoneText /\ Truthy(profile[key])

casual_prompt(prefs, profile) ==
  LET age_group == Get(prefs, "age_group", Get(prefs, "ageGroup", None))
      response_length == Get(prefs, "response_length", Get(prefs, "responseLength", None))
  IN  <<"You are a friendly medical AI assistant having a casual conversation. ">>
      \o (IF ProfileHas(profile, "name")
            THEN <<"You are chatting with ">> \o profile["name"] \o <<". ">> ELSE <<>>)
      \o (IF ProfileHas(profile, "address")
            THEN <<"They are from ">> \o profile["address"] \o <<". ">> ELSE <<>>)
      \o (IF ProfileHas(profile, "bio")
            THEN <<"About them: ">> \o profile["bio"] \o <<". ">> ELSE <<>>)
      \o (IF age_group = "young" THEN <<"TONE: YOUNG, casual">>
          ELSE IF age_group = "old" THEN <<"TONE: SENIOR, patient">>
          ELSE <<>>)
      \o (IF response_length = "brief" THEN <<"LENGTH: 1-2 SHORT sentences">>
          ELSE IF response_length = "comprehensive" THEN <<"LENGTH: AT LEAST 4-5 sentences">>
          ELSE <<>>)
      \o <<"IMPORTANT: CASUAL conversation, no web search, no citations">>

\* mutant: a missing age group is treated as middle-aged
medical_prompt_DefaultAge(prefs, profile) ==
  LET age_group == Get(prefs, "age_group", Get(prefs, "ageGroup", None))
      response_style == Get(prefs, "response_style", Get(prefs, "responseStyle", None))
      lang_complexity ==
        Get(prefs, "language_complexity", Get(prefs, "languageComplexity", None))
      include_terms ==
        Get(prefs, "include_medical_terms", Get(prefs, "includeMedicalTerms", None))
      response_length == Get(prefs, "response_length", Get(prefs, "responseLength", None))
  IN  <<"You are a trusted medical AI assistant. ">>
      \o (IF ProfileHas(profile, "name")
            THEN <<"You are assisting ">> \o profile["name"] \o <<". ">> ELSE <<>>)
      \o (IF age_group = "young" THEN <<"IMPORTANT: User is YOUNG">>
          ELSE IF age_group = "middle-aged" THEN <<"IMPORTANT: User is MIDDLE-AGED">>
          ELSE IF age_group = "old" THEN <<"IMPORTANT: User is SENIOR">>
          ELSE <<"IMPORTANT: User is MIDDLE-AGED">>)
      \o (IF response_style = "simple" THEN <<"CRITICAL: EXTREMELY simple">>
          ELSE IF response_style = "detailed" THEN <<"CRITICAL: VERY detailed">>
          ELSE <<>>)
      \o (IF lang_complexity = "simple" THEN <<"MANDATORY: Avoid ALL medical jargon">>
          ELSE IF lang_complexity = "technical" THEN <<"MANDATORY: Use medical terminology">>
          ELSE <<>>)
      \o (IF include_terms = "False" THEN <<"Avoid formal medical terms unless necessary. ">>
          ELSE <<>>)
      \o (IF response_length = "brief" THEN <<"LENGTH: EXTREMELY brief">>
          ELSE IF response_length = "concise" THEN <<"LENGTH: Concise - 2-3 paragraphs">>
          ELSE IF response_length = "comprehensive" THEN <<"LENGTH: COMPREHENSIVE">>
          ELSE <<"LENGTH: CONCISE (2-4 paragraphs maximum)">>)
      \o <<"Guidelines">>

medical_prompt(prefs, profile) ==
  LET age_group == Get(prefs, "age_group", Get(prefs, "ageGroup", None))
      response_style == Get(prefs, "response_style", Get(prefs, "responseStyle", None))
      lang_complexity ==
        Get(prefs, "language_complexity", Get(prefs, "languageComplexity", None))
      include_terms ==
        Get(prefs, "include_medical_terms", Get(prefs, "includeMedicalTerms", None))
      response_length == Get(prefs, "response_length", Get(prefs, "responseLength", None))
  IN  <<"You are a trusted medical AI assistant. ">>
      \o (IF ProfileHas(profile, "name")
            THEN <<"You are assisting ">> \o profile["name"] \o <<". ">> ELSE <<>>)
      \o (IF age_group = "young" THEN <<"IMPORTANT: User is YOUNG">>
          ELSE IF age_group = "middle-aged" THEN <<"IMPORTANT: User is MIDDLE-AGED">>
          ELSE IF age_group = "old" THEN <<"IMPORTANT: User is SENIOR">>
          ELSE <<>>)
      \o (IF response_style = "simple" THEN <<"CRITICAL: EXTREMELY simple">>
          ELSE IF response_style = "detailed" THEN <<"CRITICAL: VERY detailed">>
          ELSE <<>>)
      \o (IF lang_complexity = "simple" THEN <<"MANDATORY: Avoid ALL medical jargon">>
          ELSE IF lang_complexity = "technical" THEN <<"MANDATORY: Use medical terminology">>
          ELSE <<>>)
      \o (IF include_terms = "False" THEN <<"Avoid formal medical terms unless necessary. ">>
          ELSE <<>>)
      \o (IF response_length = "brief" THEN <<"LENGTH: EXTREMELY brief">>
          ELSE IF response_length = "concise" THEN <<"LENGTH: Concise - 2-3 paragraphs">>
          ELSE IF response_length = "comprehensive" THEN <<"LENGTH: COMPREHENSIVE">>
          ELSE <<"LENGTH: CONCISE (2-4 paragraphs maximum)">>)
      \o <<"Guidelines">>

\* a 'preferences' or 'profile' entry whose value is None
NoneDict == [k \in {"<None>"} |-> None]

\* lines 86-87
section_of(user_context, key) ==
  IF DOMAIN user_context # {} THEN Get(user_context, key, EmptyDict) ELSE EmptyDict

build_system_prompt(user_context, is_medical) ==
  LET prefs == IF DOMAIN user_context # {}
                 THEN Get(user_context, "preferences", EmptyDict) ELSE EmptyDict
      profile == IF DOMAIN user_context # {}
                   THEN Get(user_context, "profile", EmptyDict) ELSE EmptyDict
  IN  IF ~ is_medical THEN casual_prompt(prefs, profile) ELSE medical_prompt(prefs, profile)

\* ------------------------------------------------------------------------
\* services/perplexity.py: call_perplexity, the role normalisation
\* A message is a record [role, content].
\* ------------------------------------------------------------------------
Roles == {"user", "assistant", "system"}

Msg(r, c) == [role |-> r, content |-> c]

\* mutant: the merge loses the newline between the two contents
MergeInto_NoNewline(seq, other) ==
  [seq EXCEPT ![Len(seq)].content = @ \o other.content]

\* content += f"\n{other}"
MergeInto(seq, other) ==
  [seq EXCEPT ![Len(seq)].content = @ \o <<NL>> \o other.content]

\* first pass: merge consecutive same-role entries, never system entries
RECURSIVE normalize_from(_, _, _)
normalize_from(messages, i, normalized) ==
  IF i > Len(messages) THEN normalized
  ELSE LET msg == messages[i]
       IN  IF /\ normalized # <<>>
              /\ normalized[Len(normalized)].role = msg.role
              /\ msg.role # "system"
             THEN normalize_from(messages, i + 1, MergeInto(normalized, msg))
             ELSE normalize_from(messages, i + 1, Append(normalized, msg))

normalized_messages(messages) == normalize_from(messages, 1, <<>>)

IsNotSystem(m) == m.role # "system"

\* mutant: stored system entries are kept behind the system prompt
final_messages_KeepSystem(system_prompt, normalized) ==
  <<Msg("system", system_prompt)>> \o normalized

\* the system prompt first, then the non-system entries of the first pass
final_messages(system_prompt, normalized) ==
  <<Msg("system", system_prompt)>> \o SelectSeq(normalized, IsNotSystem)

\* second pass: "Ensure alternating roles"
RECURSIVE validate_from(_, _, _)
validate_from(final, i, validated) ==
  IF i > Len(final) THEN validated
  ELSE LET current == final[i]
           last == validated[Len(validated)]
       IN  IF last.role = current.role
             THEN validate_from(final, i + 1, MergeInto(validated, current))
             ELSE validate_from(final, i + 1, Append(validated, current))

\* mutant: the second pass is skipped
validated_messages_Skipped(final) == final

validated_messages(final) == validate_from(final, 2, <<final[1]>>)

\* the sequence call_perplexity hands to chat.completions.create
api_messages(messages, user_context, user_message) ==
  LET is_medical == IF Truthy(user_message) THEN is_medical_query(user_message) ELSE TRUE
      system_prompt == build_system_prompt(user_context, is_medical)
  IN  validated_messages(final_messages(system_prompt, normalized_messages(messages)))

\* ------------------------------------------------------------------------
\* routes/chat.py: send_message, the request built from history and message
\* ------------------------------------------------------------------------
\* perplexity.build_session_context(messages, max_messages)
build_session_context(messages, max_messages) ==
  IF Len(messages) > max_messages
    THEN SubSeq(messages, Len(messages) - max_messages + 1, Len(messages))
    ELSE messages

\* messages_for_api: the new user text merged into a trailing user entry,
\* appended otherwise
messages_for_api(session_context, message) ==
  IF session_context # <<>> /\ session_context[Len(session_context)].role = "user"
    THEN MergeInto(session_context, Msg("user", message))
    ELSE Append(session_context, Msg("user", message))

\* ------------------------------------------------------------------------
\* Search results: services/perplexity.py call_perplexity (238-263) and
\* routes/conversations.py get_conversation (76-101)
\* An entry of the raw list is [kind, fields]: a dict or an attribute object
\* with the given fields, or some other JSON value. A field value is a str
\* (sequence of characters), None, or a value that is not a str.
\* ------------------------------------------------------------------------
NumberValue == <<"<number>">>

IsStr(v) == v # NoneText /\ v # NumberValue

\* truthiness of a field value: None and "" are falsy
TruthyValue(v) == v # NoneText /\ v # <<>>

\* result.get(key, default) and getattr(result, key, default)
Field(result, key, default) ==
  IF result.kind \in {"dict", "object"} /\ key \in DOMAIN result.fields
    THEN result.fields[key] ELSE default

\* mutant: "Only include results with valid URLs", the title is not looked at
result_verdict_UrlOnly(result) ==
  LET url == Field(result, "url", <<>>)
  IN  IF ~ TruthyValue(url) THEN "drop"
      ELSE IF ~ IsStr(url) THEN "raise"
      ELSE IF Strip(url) = <<>> THEN "drop"
      ELSE "keep"

\* url and url.strip() and title and title.strip(), evaluated left to right:
\* "keep", "drop", or "raise" when .strip() is called on a value that is not a str
result_verdict(result) ==
  LET url == Field(result, "url", <<>>)
      title == Field(result, "title", <<>>)
  IN  IF ~ TruthyValue(url) THEN "drop"
      ELSE IF ~ IsStr(url) THEN "raise"
      ELSE IF Strip(url) = <<>> THEN "drop"
      ELSE IF ~ TruthyValue(title) THEN "drop"
      ELSE IF ~ IsStr(title) THEN "raise"
      ELSE IF Strip(title) = <<>> THEN "drop"
      ELSE "keep"

\* the entry call_perplexity appends
result_entry(result) ==
  [title |-> Field(result, "title", <<>>),
   url |-> Field(result, "url", <<>>),
   snippet |-> Field(result, "snippet", <<>>),
   date |-> Field(result, "date", NoneText)]

RECURSIVE search_results_from(_, _, _)
search_results_from(search_results_raw, i, search_results) ==
  IF i > Len(search_results_raw) THEN [raised |-> FALSE, value |-> search_results]
  ELSE LET verdict == result_verdict(search_results_raw[i])
       IN  IF verdict = "raise" THEN [raised |-> TRUE, value |-> <<>>]
           ELSE IF verdict = "keep"
             THEN search_results_from(search_results_raw, i + 1,
                                      Append(search_results, result_entry(search_results_raw[i])))
           ELSE search_results_from(search_results_raw, i + 1, search_results)

\* call_perplexity's searchResults, or the exception of the loop
search_results_of(search_results_raw) == search_results_from(search_results_raw, 1, <<>>)

\* get_conversation: isinstance(result, dict), and url and title are non-blank str
stored_result_kept(result) ==
  /\ result.kind = "dict"
  /\ LET url == Field(result, "url", NoneText)
         title == Field(result, "title", NoneText)
     IN  /\ TruthyValue(url) /\ IsStr(url) /\ Strip(url) # <<>>
         /\ TruthyValue(title) /\ IsStr(title) /\ Strip(title) # <<>>

filtered_results(search_results) == SelectSeq(search_results, stored_result_kept)

\* ------------------------------------------------------------------------
\* services/embedding_service.py: get_embedding_service + generate_embedding,
\* as the search gateway uses them. A vector is its length; None is NoVector.
\* provider: the process's EmbeddingService, [mode, outcome]; outcome is "ok",
\* "error" (the model or remote call raises) or "unavailable" (the service
\* cannot be constructed, get_embedding_service raises).
\* ------------------------------------------------------------------------
NoVector == 0

LocalDimension == 384

MODES ==
  [LOCAL |-> [model |-> "all-MiniLM-L6-v2", dimensions |-> 384, max_tokens |-> 512],
   OPENAI |-> [model |-> "text-embedding-3-small", dimensions |-> 1536,
               max_tokens |-> 8191]]

\* a service in LOCAL mode whose model answers
LocalService == [mode |-> "LOCAL", outcome |-> "ok"]

\* text[:n]
Prefix(text, n) == SubSeq(text, 1, IF n < Len(text) THEN n ELSE Len(text))

\* the outcome of an embedding call:
\* raised/error: the exception that leaves the call; value: the length of
\* the returned vector or NoVector for None; encoded: what was handed to the
\* model or remote provider (NoneText: nothing); provider_calls: how often it
\* was invoked
Raised(error) ==
  [raised |-> TRUE, error |-> error, value |-> NoVector, encoded |-> NoneText,
   provider_calls |-> 0]

\* mutant: every model answers with vectors of the local length
encoder_LocalLength(self, input) ==
  IF self.outcome = "error"
    THEN [raised |-> TRUE, error |-> "provider", value |-> NoVector, encoded |-> input,
          provider_calls |-> 1]
    ELSE [raised |-> FALSE, error |-> "", value |-> LocalDimension,
          encoded |-> input, provider_calls |-> 1]

\* model.encode / client.embeddings.create: a vector of the model's length
encoder(self, input) ==
  IF self.outcome = "error"
    THEN [raised |-> TRUE, error |-> "provider", value |-> NoVector, encoded |-> input,
          provider_calls |-> 1]
    ELSE [raised |-> FALSE, error |-> "", value |-> MODES[self.mode].dimensions,
          encoded |-> input, provider_calls |-> 1]

\* EmbeddingService._generate_local
generate_local(self, text) == encoder(self, text)

\* EmbeddingService._generate_openai
generate_openai(self, text) ==
  LET truncated_text == Prefix(text, MODES[self.mode].max_tokens * 4)
  IN  encoder(self, truncated_text)

\* the try block of EmbeddingService.generate_embedding
generate_try_body(self, text) ==
  IF self.mode = "LOCAL" THEN generate_local(self, text) ELSE generate_openai(self, text)

\* mutant: the blank check is missing
EmbeddingService_generate_embedding_NoCheck(self, text) ==
  LET body == generate_try_body(self, text)
  IN  IF body.raised THEN [body EXCEPT !.raised = FALSE, !.error = ""] ELSE body

\* EmbeddingService.generate_embedding: text is a str or None
EmbeddingService_generate_embedding(self, text) ==
  IF ~ TruthyValue(text) \/ ~ Truthy(Strip(text))
    THEN Raised("Text cannot be empty")
  ELSE LET body == generate_try_body(self, text)
       IN  IF body.raised THEN [body EXCEPT !.raised = FALSE, !.error = ""] ELSE body

\* get_embedding_service().generate_embedding(text)
generate_embedding(text, provider) ==
  IF provider.outcome = "unavailable" THEN Raised("unavailable")
  ELSE EmbeddingService_generate_embedding(provider, text)

\* ------------------------------------------------------------------------
\* EmbeddingService.generate_embeddings_batch: texts is a list whose
\* elements are a str, None, or a value that is not a str (NumberValue)
\* ------------------------------------------------------------------------
empty == <<"e", "m", "p", "t", "y">>

\* [None] * len(texts)
AllNone(texts) == [i \in 1..Len(texts) |-> NoVector]

\* t.strip() on a value that is not a str raises AttributeError
HasNoStrip(texts) == \E i \in 1..Len(texts) : texts[i] = NumberValue

\* line 202: t.strip() if t else ""
valid_texts_local(texts) ==
  [i \in 1..Len(texts) |-> IF TruthyValue(texts[i]) THEN Strip(texts[i]) ELSE <<>>]

\* lines 211-214: t.strip()[:max_tokens * 4] if t and t.strip() else "empty"
valid_texts_openai(self, texts) ==
  [i \in 1..Len(texts) |->
     IF TruthyValue(texts[i]) /\ Truthy(Strip(texts[i]))
       THEN Prefix(Strip(texts[i]), MODES[self.mode].max_tokens * 4)
       ELSE empty]

\* one call of the model or remote provider for the whole list: it answers
\* with one vector per input, in input order, or raises
encoder_batch(self, inputs) ==
  IF self.outcome = "error"
    THEN [raised |-> TRUE, error |-> "provider", value |-> <<>>, encoded |-> inputs,
          provider_calls |-> 1]
    ELSE [raised |-> FALSE, error |-> "",
          value |-> [i \in 1..Len(inputs) |-> MODES[self.mode].dimensions],
          encoded |-> inputs, provider_calls |-> 1]

\* the try block: _generate_batch_local / _generate_batch_openai
batch_try_body(self, texts) ==
  IF HasNoStrip(texts)
    THEN [raised |-> TRUE, error |-> "AttributeError", value |-> <<>>, encoded |-> <<>>,
          provider_calls |-> 0]
  ELSE IF self.mode = "LOCAL" THEN encoder_batch(self, valid_texts_local(texts))
  ELSE encoder_batch(self, valid_texts_openai(self, texts))

\* mutant: the result of a failed call is the empty list
generate_embeddings_batch_Short(self, texts) ==
  IF texts = <<>>
    THEN [raised |-> TRUE, error |-> "Texts list cannot be empty", value |-> <<>>,
          encoded |-> <<>>, provider_calls |-> 0]
  ELSE LET body == batch_try_body(self, texts)
       IN  IF body.raised
             THEN [body EXCEPT !.raised = FALSE, !.error = "", !.value = <<>>]
             ELSE body

generate_embeddings_batch(self, texts) ==
  IF texts = <<>>
    THEN [raised |-> TRUE, error |-> "Texts list cannot be empty", value |-> <<>>,
          encoded |-> <<>>, provider_calls |-> 0]
  ELSE LET body == batch_try_body(self, texts)
       IN  IF body.raised
             THEN [body EXCEPT !.raised = FALSE, !.error = "", !.value = AllNone(texts)]
             ELSE body

\* ------------------------------------------------------------------------
\* EmbeddingService.cosine_similarity: vectors are sequences of integers.
\* The quotient dot_product / (sqrt(m1) * sqrt(m2)) is kept as its three
\* parts; zero marks the 0.0 of a zero vector.
\* ------------------------------------------------------------------------
RECURSIVE DotProduct(_, _)
DotProduct(vec1, vec2) ==
  IF vec1 = <<>> \/ vec2 = <<>> THEN 0
  ELSE vec1[1] * vec2[1] + DotProduct(Tail(vec1), Tail(vec2))

NoSimilarity == [zero |-> FALSE, dot_product |-> 0, magnitude1 |-> 0, magnitude2 |-> 0]

\* lines 301-308, zip pairing the elements up to the shorter length
similarity_of(vec1, vec2) ==
  LET magnitude1 == DotProduct(vec1, vec1)
      magnitude2 == DotProduct(vec2, vec2)
  IN  IF magnitude1 = 0 \/ magnitude2 = 0
        THEN [raised |-> FALSE, error |-> "", value |-> [NoSimilarity EXCEPT !.zero = TRUE]]
        ELSE [raised |-> FALSE, error |-> "",
              value |-> [zero |-> FALSE, dot_product |-> DotProduct(vec1, vec2),
                         magnitude1 |-> magnitude1, magnitude2 |-> magnitude2]]

cosine_similarity(vec1, vec2) ==
  IF Len(vec1) # Len(vec2)
    THEN [raised |-> TRUE, error |-> "Vectors must have same dimensions",
          value |-> NoSimilarity]
  ELSE similarity_of(vec1, vec2)

\* ------------------------------------------------------------------------
\* The external similarity index (the database functions
\* search_similar_patient_memories / search_similar_messages), per its
\* interface: the owner's rows with similarity >= threshold, descending by
\* similarity, at most match_count of them. Similarities are percentages.
\* A NULL query vector (generate_embedding returned None) has no similarity
\* to any row, so no row passes the threshold.
\* ------------------------------------------------------------------------
RECURSIVE SortDescending(_)
SortDescending(rows) ==
  IF rows = {} THEN <<>>
  ELSE LET top == CHOOSE r \in rows : \A q \in rows : q.similarity <= r.similarity
       IN  <<top>> \o SortDescending(rows \ {top})

FirstN(seq, n) == SubSeq(seq, 1, IF n < Len(seq) THEN (IF n < 0 THEN 0 ELSE n) ELSE Len(seq))

\* the length of the stored vectors: Vector(384) in models.py and the
\* ::vector(384) cast of the query
StoredDimension == 384

\* :query_embedding::vector(384): NULL casts to NULL, a vector of another
\* length is an error of the statement
\* mutant: the cast takes a vector of any length
CastsToStoredVector_AnyLength(query_embedding) == TRUE

CastsToStoredVector(query_embedding) ==
  query_embedding = NoVector \/ query_embedding = StoredDimension

index_rows(stored, owner_key, owner, query_embedding, match_threshold, match_count) ==
  IF query_embedding = NoVector THEN <<>>
  ELSE FirstN(SortDescending({r \in stored :
                                /\ owner # None => r[owner_key] = owner
                                /\ r.similarity >= match_threshold}),
              match_count)

\* ------------------------------------------------------------------------
\* services/db_operations.py: search_similar_patient_memories (400-463) and
\* search_similar_messages (466-530): the body of the try block, and the
\* function with its except clause.
\* index: "ok", "error" (timeout, connectivity, SQL error), "malformed" (a
\* row that the conversion loop cannot read)
\* ------------------------------------------------------------------------
search_try_body(stored, owner_key, query_text, owner, match_threshold, match_count, provider, index) ==
  LET embedding == generate_embedding(query_text, provider)
  IN  IF embedding.raised
        THEN [raised |-> TRUE, rows |-> <<>>,
              provider_calls |-> embedding.provider_calls, index_calls |-> 0]
      ELSE IF index # "ok" \/ ~ CastsToStoredVector(embedding.value)
        THEN [raised |-> TRUE, rows |-> <<>>,
              provider_calls |-> embedding.provider_calls, index_calls |-> 1]
      ELSE [raised |-> FALSE,
            rows |-> index_rows(stored, owner_key, owner, embedding.value,
                                match_threshold, match_count),
            provider_calls |-> embedding.provider_calls, index_calls |-> 1]

\* mutant: the except clause is missing, the exception reaches the caller
search_similar_Propagating(stored, owner_key, query_text, owner, match_threshold, match_count, provider, index) ==
  search_try_body(stored, owner_key, query_text, owner, match_threshold, match_count,
                  provider, index)

\* except Exception: return []
search_similar(stored, owner_key, query_text, owner, match_threshold, match_count, provider, index) ==
  LET body == search_try_body(stored, owner_key, query_text, owner, match_threshold,
                              match_count, provider, index)
  IN  IF body.raised THEN [body EXCEPT !.raised = FALSE, !.rows = <<>>] ELSE body

\* ------------------------------------------------------------------------
\* services/perplexity.py: build_patient_memory_prompt_from_vector
\* ------------------------------------------------------------------------
RelevanceThreshold == 70

RECURSIVE JoinWith(_, _)
JoinWith(parts, sep) ==
  IF parts = <<>> THEN <<>>
  ELSE IF Len(parts) = 1 THEN parts[1]
  ELSE parts[1] \o sep \o JoinWith(Tail(parts), sep)

RECURSIVE rel_parts_from(_, _, _)
rel_parts_from(relationships, i, rel_parts) ==
  IF i > Len(relationships) THEN rel_parts
  ELSE LET rel == relationships[i]
           rel_type == Get(rel, "type", <<>>)
           related_entity == Get(rel, "relatedEntity", <<>>)
       IN  IF TruthyValue(rel_type) /\ TruthyValue(related_entity)
             THEN rel_parts_from(relationships, i + 1,
                                 Append(rel_parts, rel_type \o <<" ">> \o related_entity))
             ELSE rel_parts_from(relationships, i + 1, rel_parts)

memory_line(result) ==
  LET rel_parts == rel_parts_from(result.relationships, 1, <<>>)
  IN  <<"-", " ">> \o result.entityName \o <<" ", "(">> \o result.entityType \o <<")">>
      \o (IF rel_parts # <<>> THEN <<" ", "|", " ">> \o JoinWith(rel_parts, <<",", " ">>)
          ELSE <<>>)
      \o (IF "description" \in DOMAIN result.metadata
            THEN <<" ", "-", " ">> \o result.metadata["description"] ELSE <<>>)

RECURSIVE memory_lines_from(_, _, _)
memory_lines_from(search_results, i, memory_lines) ==
  IF i > Len(search_results) THEN memory_lines
  ELSE IF search_results[i].similarity < RelevanceThreshold
    THEN memory_lines_from(search_results, i + 1, memory_lines)
  ELSE memory_lines_from(search_results, i + 1,
                         Append(memory_lines, memory_line(search_results[i])))

\* mutant: the relevance test is missing, every match is listed
build_patient_memory_prompt_from_vector_All(search_results) ==
  LET memory_lines == [i \in 1..Len(search_results) |-> memory_line(search_results[i])]
  IN  IF memory_lines = <<>> THEN <<>>
      ELSE <<"Relevant Patient History (from previous conversations):">>
           \o JoinWith(memory_lines, <<NL>>)
           \o <<"Use this context when relevant to the current question.">>

build_patient_memory_prompt_from_vector(search_results) ==
  LET memory_lines == memory_lines_from(search_results, 1, <<>>)
  IN  IF memory_lines = <<>> THEN <<>>
      ELSE <<"Relevant Patient History (from previous conversations):">>
           \o JoinWith(memory_lines, <<NL>>)
           \o <<"Use this context when relevant to the current question.">>

\* ------------------------------------------------------------------------
\* services/perplexity.py: get_relevant_context_with_vectors
\* ------------------------------------------------------------------------
get_relevant_context_with_vectors(stored, user_id, user_message, match_count, similarity_threshold, provider, index) ==
  LET found == search_similar(stored, "userId", user_message, user_id,
                              similarity_threshold, match_count, provider, index)
  IN  IF found.raised
        THEN [raised |-> FALSE, memoryContext |-> <<>>, relevantMemoriesCount |-> 0,
              searchMethod |-> "fallback_empty",
              provider_calls |-> found.provider_calls, index_calls |-> found.index_calls]
      ELSE [raised |-> FALSE,
            memoryContext |-> build_patient_memory_prompt_from_vector(found.rows),
            relevantMemoriesCount |-> Len(found.rows),
            searchMethod |-> "vector_similarity",
            provider_calls |-> found.provider_calls, index_calls |-> found.index_calls]

\* ------------------------------------------------------------------------
\* routes/vector_search.py: search_memories and search_messages_endpoint
\* ------------------------------------------------------------------------
MaxMemoryCount == 50

MaxMessageCount == 100

search_route(stored, owner_key, max_count, query, owner, match_threshold, match_count, provider, index) ==
  IF ~ Truthy(query)
    THEN [status |-> 400, error |-> "Query text is required", results |-> <<>>,
          provider_calls |-> 0, index_calls |-> 0]
  ELSE IF ~ (0 <= match_threshold /\ match_threshold <= 100)
    THEN [status |-> 400, error |-> "match_threshold must be between 0 and 1",
          results |-> <<>>, provider_calls |-> 0, index_calls |-> 0]
  ELSE IF ~ (1 <= match_count /\ match_count <= max_count)
    THEN [status |-> 400, error |-> "match_count out of range", results |-> <<>>,
          provider_calls |-> 0, index_calls |-> 0]
  ELSE LET found == search_similar(stored, owner_key, query, owner, match_threshold,
                                   match_count, provider, index)
       IN  IF found.raised
             THEN [status |-> 500, error |-> "exception", results |-> <<>>,
                   provider_calls |-> found.provider_calls,
                   index_calls |-> found.index_calls]
             ELSE [status |-> 200, error |-> "", results |-> found.rows,
                   provider_calls |-> found.provider_calls,
                   index_calls |-> found.index_calls]

\* ------------------------------------------------------------------------
\* State
\* ------------------------------------------------------------------------
VARIABLES
  n_history,     \* prior turns handed to send_message's request building
  n_message,     \* the new user text
  n_context,     \* user_context
  n_sent,        \* the sequence handed to the external model
  n_again,       \* the sequence obtained by normalising n_sent again
  n_pc,
  r_raw,         \* a raw list of search results
  r_path,        \* which filter ran: "invoke" (call_perplexity), "read" (get_conversation)
  r_returned,    \* [raised, value]: the filtered list, or the exception of the loop
  r_pc,
  s_call,        \* a search request: [path, user, query, owner, match_threshold,
                 \* match_count], or the two vectors of a cosine_similarity call
  s_result,      \* what the request's handler returned
  s_pc,
  db_messages,     \* the Message table: rows in the order of their commits
  pc,              \* where each request's handler is
  request,         \* the request's conversationId, message and user
  session_context, \* the prior turns the handler read
  user_context,
  sent,            \* the sequence handed to the external model
  model_calls,     \* how often the handler called the external model
  model_outcome,   \* "none", "ok", "failed"
  model_result,    \* what call_perplexity returned
  response,        \* the HTTP response
  thread,          \* the state of save_messages_background
  dispatches,      \* how often the handler started the thread
  writes,          \* how often the thread called create_message, per role
  failures_logged, \* the requests whose background save printed a failure
  calls,           \* the collaborators each handler called, in order
  embedding_service_instance, \* the module global: 0 for None, else the instance
  constructions,   \* how many EmbeddingService objects the process has built
  server,          \* "starting", "serving" (requests are handled), "exited"
  g_pc,            \* where each caller of get_embedding_service is
  g_local,         \* the object a caller has built and not yet stored
  g_calls,         \* how many calls each caller has finished
  g_returned,      \* the instances that calls have returned
  e_call,          \* a call of the service: [op, mode, text, texts]
  e_result,        \* [answer, outcome]: what the call returned, how the provider behaved
  e_pc,
  p_call,          \* a call of create_message or create_patient_memory
  p_rows,          \* the rows of the two tables, in the order of their commits
  p_result,        \* the outcome of the call and how provider and store behaved
  p_pc,
  a_results,       \* the matches handed to build_patient_memory_prompt_from_vector
  a_context,       \* the text it returned
  a_pc,
  q_call,          \* a call of is_medical_query or build_system_prompt
  q_result,        \* what the call returned
  q_pc,
  b_call,          \* a backfill: [op, table, batch_size, mode]
  b_rows,          \* the rows of the table: [content, content_embedding]
  b_result,        \* what the last batch returned and what it did
  b_pc,
  db_conversations \* the ids of the rows of the Conversation table

normVars == <<n_history, n_message, n_context, n_sent, n_again, n_pc>>

resultVars == <<r_raw, r_path, r_returned, r_pc>>

searchVars == <<s_call, s_result, s_pc>>

chatVars ==
  <<db_messages, pc, request, session_context, user_context, sent, model_calls,
    model_outcome, model_result, response, thread, dispatches, writes, failures_logged,
    calls>>

singletonVars ==
  <<embedding_service_instance, constructions, server, g_pc, g_local, g_calls,
    g_returned>>

embedVars == <<e_call, e_result, e_pc>>

persistVars == <<p_call, p_rows, p_result, p_pc>>

assembleVars == <<a_results, a_context, a_pc>>

serviceVars == <<singletonVars, embedVars, persistVars, assembleVars>>

\* the classifier and the prompt builder called on their own
promptVars == <<q_call, q_result, q_pc>>

\* the backfill of missing embeddings
backfillVars == <<b_call, b_rows, b_result, b_pc>>

storeVars == <<db_conversations>>

toolVars == <<promptVars, backfillVars, storeVars>>

vars == <<normVars, resultVars, searchVars, chatVars, serviceVars, toolVars>>

\* the variables of a part that a specification does not exercise
IdleNormalize ==
  /\ n_history = <<>>
  /\ n_message = <<>>
  /\ n_context = <<>>
  /\ n_sent = <<>>
  /\ n_again = <<>>
  /\ n_pc = "off"

NoCall == [path |-> "none", user |-> None, query |-> <<>>, owner |-> None,
           match_threshold |-> 0, match_count |-> 0, vec1 |-> <<>>, vec2 |-> <<>>]

NoProvider == [mode |-> "none", outcome |-> "none"]

NoResult == [status |-> 0, raised |-> FALSE, rows |-> <<>>, memoryContext |-> <<>>,
             similarity |-> NoSimilarity, provider_calls |-> 0, index_calls |-> 0,
             provider |-> NoProvider, index |-> "none"]

IdleSearch ==
  /\ s_call = NoCall
  /\ s_result = NoResult
  /\ s_pc = "off"

Requests == 1..MaxRequests

\* after: the requests whose response had been returned when this one arrived
NoRequest == [conversation_id |-> None, message |-> <<>>, user |-> None, after |-> {}]

NoModelResult == [content |-> <<>>, searchResults |-> <<>>]

NoResponse == [status |-> 0, error |-> "", conversationId |-> None, content |-> <<>>,
               searchResults |-> <<>>]

NoWrites == [user |-> 0, assistant |-> 0]

ChatStart(first_pc) ==
  /\ db_messages = <<>>
  /\ pc = [r \in Requests |-> first_pc]
  /\ request = [r \in Requests |-> NoRequest]
  /\ session_context = [r \in Requests |-> <<>>]
  /\ user_context = [r \in Requests |-> EmptyDict]
  /\ sent = [r \in Requests |-> <<>>]
  /\ model_calls = [r \in Requests |-> 0]
  /\ model_outcome = [r \in Requests |-> "none"]
  /\ model_result = [r \in Requests |-> NoModelResult]
  /\ response = [r \in Requests |-> NoResponse]
  /\ thread = [r \in Requests |-> "none"]
  /\ dispatches = [r \in Requests |-> 0]
  /\ writes = [r \in Requests |-> NoWrites]
  /\ failures_logged = {}
  /\ calls = [r \in Requests |-> <<>>]

IdleChat == ChatStart("off") /\ db_conversations = {}

IdleResults ==
  /\ r_raw = <<>>
  /\ r_path = "none"
  /\ r_returned = [raised |-> FALSE, value |-> <<>>]
  /\ r_pc = "off"

Callers == 1..MaxCallers

IdleSingleton ==
  /\ embedding_service_instance = 0
  /\ constructions = 0
  /\ server = "off"
  /\ g_pc = [t \in Callers |-> "off"]
  /\ g_local = [t \in Callers |-> 0]
  /\ g_calls = [t \in Callers |-> 0]
  /\ g_returned = {}

NoEmbedCall == [op |-> "none", mode |-> "none", text |-> <<>>, texts |-> <<>>]

NoEmbedResult == [answer |-> Raised("none"), outcome |-> "none"]

IdleEmbed ==
  /\ e_call = NoEmbedCall
  /\ e_result = NoEmbedResult
  /\ e_pc = "off"

NoPersistCall ==
  [op |-> "none", content |-> <<>>, search_results |-> <<>>, relationships |-> <<>>,
   metadata |-> EmptyDict, generate_embedding |-> FALSE]

NoPersistResult ==
  [raised |-> FALSE, attempted |-> FALSE, warned |-> FALSE, generated |-> NoVector,
   provider |-> NoProvider, store |-> "none"]

IdlePersist ==
  /\ p_call = NoPersistCall
  /\ p_rows = <<>>
  /\ p_result = NoPersistResult
  /\ p_pc = "off"

IdleAssemble ==
  /\ a_results = <<>>
  /\ a_context = <<>>
  /\ a_pc = "off"

NoPromptCall ==
  [op |-> "none", question |-> <<>>, user_context |-> EmptyDict, is_medical |-> TRUE]

NoPromptResult == [is_medical |-> TRUE, raised |-> FALSE, prompt |-> <<>>]

IdlePrompt ==
  /\ q_call = NoPromptCall
  /\ q_result = NoPromptResult
  /\ q_pc = "off"

NoBackfillCall == [op |-> "none", table |-> "none", batch_size |-> 0, mode |-> "none"]

NoBackfillResult == [updated_count |-> 0, selected |-> 0, embedded |-> 0, rolled_back |-> FALSE]

IdleBackfill ==
  /\ b_call = NoBackfillCall
  /\ b_rows = <<>>
  /\ b_result = NoBackfillResult
  /\ b_pc = "off"

IdleTool ==
  /\ IdlePrompt
  /\ IdleBackfill

IdleServiceParts ==
  /\ IdleSingleton
  /\ IdleEmbed
  /\ IdlePersist
  /\ IdleAssemble

IdleService ==
  /\ IdleServiceParts
  /\ IdleTool

\* ------------------------------------------------------------------------
\* Inputs of the request building
\* ------------------------------------------------------------------------
Texts == {hello, hello_again, fever}

HistoryTexts == {hello, fever}

\* all sequences over S of length at most n
RECURSIVE SeqsUpTo(_, _)
SeqsUpTo(S, n) ==
  IF n = 0 THEN {<<>>}
  ELSE LET shorter == SeqsUpTo(S, n - 1)
       IN  shorter \cup {Append(q, x) : q \in {t \in shorter : Len(t) = n - 1}, x \in S}

Histories == SeqsUpTo({Msg(r, c) : r \in Roles, c \in HistoryTexts}, MaxHistory)

\* the user_context send_message builds: absent, or the stored preferences
camelPrefs(age, style, complexity, terms, length) ==
  [k \in {"ageGroup", "responseStyle", "languageComplexity", "includeMedicalTerms",
          "responseLength"} |->
     CASE k = "ageGroup" -> age
       [] k = "responseStyle" -> style
       [] k = "languageComplexity" -> complexity
       [] k = "includeMedicalTerms" -> terms
       [] k = "responseLength" -> length]

ContextOf(prefs) == [k \in {"preferences"} |-> prefs]

UserContexts ==
  { EmptyDict,
    ContextOf(camelPrefs("young", "simple", None, "False", "brief")),
    ContextOf(camelPrefs(None, None, None, None, None)) }

\* ------------------------------------------------------------------------
\* Specification of the request building (send_message + call_perplexity)
\* ------------------------------------------------------------------------
InitNormalize ==
  /\ n_history \in Histories
  /\ n_message \in Texts
  /\ n_context \in UserContexts
  /\ n_sent = <<>>
  /\ n_again = <<>>
  /\ n_pc = "input"
  /\ IdleResults
  /\ IdleSearch
  /\ IdleChat
  /\ IdleService

BuildRequest ==
  /\ n_pc = "input"
  /\ n_sent' = api_messages(messages_for_api(n_history, n_message), n_context, n_message)
  /\ n_pc' = "sent"
  /\ UNCHANGED <<n_history, n_message, n_context, n_again>>
  /\ UNCHANGED <<resultVars, searchVars, chatVars, serviceVars, toolVars>>

NormalizeAgain ==
  /\ n_pc = "sent"
  /\ n_again' = api_messages(n_sent, n_context, n_message)
  /\ n_pc' = "again"
  /\ UNCHANGED <<n_history, n_message, n_context, n_sent>>
  /\ UNCHANGED <<resultVars, searchVars, chatVars, serviceVars, toolVars>>

NextNormalize == BuildRequest \/ NormalizeAgain

SpecNormalize == InitNormalize /\ [][NextNormalize]_vars

\* ------------------------------------------------------------------------
\* C1: the sequence handed to the external model starts with role=system
\* and holds no two adjacent entries of the same role.
\* ------------------------------------------------------------------------
NoAdjacentSameRole(seq) == \A i \in 1..(Len(seq) - 1) : seq[i].role # seq[i + 1].role

C1_SystemFirstAlternating ==
  n_pc # "input" =>
    /\ Len(n_sent) >= 1
    /\ n_sent[1].role = "system"
    /\ NoAdjacentSameRole(n_sent)

\* a user turn, then a stored system turn, then the new user text
C1_Witness ==
  /\ n_pc = "sent"
  /\ Len(n_history) = 2
  /\ n_history[1].role = "user"
  /\ n_history[2].role = "system"
  /\ Len(n_sent) = 2

\* ------------------------------------------------------------------------
\* C2: as stated: when the last prior turn is user the new text is merged
\* into it as "<prior content>\n<new text>"; when the last prior turn is not
\* user, or there is none, the new text is a new last user entry.
\* ------------------------------------------------------------------------
LastOf(seq) == seq[Len(seq)]

IsSuffix(p, s) == Len(p) <= Len(s) /\ SubSeq(s, Len(s) - Len(p) + 1, Len(s)) = p

\* number of maximal runs of equal role
Runs(seq) == Cardinality({i \in 1..Len(seq) : i = 1 \/ seq[i].role # seq[i - 1].role})

C2_AsStated ==
  n_pc # "input" =>
    IF n_history # <<>> /\ LastOf(n_history).role = "user"
      THEN /\ LastOf(n_sent).role = "user"
           /\ IsSuffix(LastOf(n_history).content \o <<NL>> \o n_message,
                       LastOf(n_sent).content)
      ELSE LastOf(n_sent) = Msg("user", n_message)

\* C2, amended: the prior turn that counts is the last one that is not a
\* system turn (stored system turns are dropped before the merge): if it is
\* user the new text is merged into it as "<prior content>\n<new text>" and
\* no entry is added; if it is assistant, or there is none, the new text is
\* a new last user entry. [user:"hello"] + "hello again" gives exactly the
\* system prompt followed by user "hello\nhello again".
C2_MergeIntoLastUser ==
  n_pc # "input" =>
    LET h == SelectSeq(n_history, IsNotSystem)
    IN  /\ IF h # <<>> /\ LastOf(h).role = "user"
             THEN /\ LastOf(n_sent).role = "user"
                  /\ IsSuffix(LastOf(h).content \o <<NL>> \o n_message,
                              LastOf(n_sent).content)
                  /\ Len(n_sent) = 1 + Runs(h)
             ELSE /\ LastOf(n_sent) = Msg("user", n_message)
                  /\ Len(n_sent) = 2 + Runs(h)
        /\ (n_history = <<Msg("user", hello)>> /\ n_message = hello_again) =>
             /\ Len(n_sent) = 2
             /\ n_sent[1].role = "system"
             /\ n_sent[2] = Msg("user", hello \o <<NL>> \o hello_again)

C2_Witness ==
  /\ n_pc = "sent"
  /\ n_history = <<Msg("user", hello)>>
  /\ n_message = hello_again
  /\ Len(n_sent) = 2

\* ------------------------------------------------------------------------
\* C3: normalising the normalised sequence again, with the same system
\* prompt, yields the same sequence of (role, content) entries.
\* ------------------------------------------------------------------------
C3_Idempotent == n_pc = "again" => n_again = n_sent

\* a case in which the first normalisation merged and dropped entries
C3_Witness ==
  /\ n_pc = "again"
  /\ Len(n_sent) >= 3
  /\ Len(n_sent) < Len(n_history) + 2
  /\ \E i \in 1..Len(n_sent) : \E j \in 1..Len(n_sent[i].content) : n_sent[i].content[j] = NL

\* ------------------------------------------------------------------------
\* Specification of the search-result filters
\* ------------------------------------------------------------------------
url_x == <<"h", "t", "t", "p", ":", "/", "/", "x">>

url_y == <<"h", "t", "t", "p", ":", "/", "/", "y">>

Dict(fields) == [kind |-> "dict", fields |-> fields]

\* marks a key that the entry does not have
Absent == <<"<absent>">>

\* {title: t, url: u}, a key being left out when its value is Absent
TitleUrl(kind, t, u) ==
  [kind |-> kind,
   fields |-> [k \in ({"title" : x \in {t} \ {Absent}} \cup {"url" : x \in {u} \ {Absent}})
                 |-> IF k = "title" THEN t ELSE u]]

example_first == TitleUrl("dict", <<>>, url_x)

example_second ==
  Dict([k \in {"title", "url", "snippet"} |->
          CASE k = "title" -> <<"A">> [] k = "url" -> url_y [] k = "snippet" -> <<"s">>])

RawResults ==
  {TitleUrl("dict", t, u) : t \in {Absent, NoneText, <<>>, <<" ">>, <<"A">>, <<" ", "B">>},
                            u \in {Absent, NoneText, <<>>, <<" ", "\n">>, url_x}}
    \cup {TitleUrl("object", <<"A">>, url_y), TitleUrl("object", <<"A">>, Absent),
          TitleUrl("dict", NumberValue, url_x), TitleUrl("dict", <<"A">>, NumberValue),
          [kind |-> "other", fields |-> EmptyDict],
          example_second}

RawResultLists == SeqsUpTo(RawResults, MaxResults)

\* what the database's JSON column can hold: no attribute objects
IsStoredList(raw) == \A i \in 1..Len(raw) : raw[i].kind # "object"

InitResults ==
  /\ r_raw \in RawResultLists
  /\ r_path = "none"
  /\ r_returned = [raised |-> FALSE, value |-> <<>>]
  /\ r_pc = "input"
  /\ IdleNormalize
  /\ IdleSearch
  /\ IdleChat
  /\ IdleService

\* call_perplexity, lines 238-263
FilterModelResults ==
  /\ r_pc = "input"
  /\ r_returned' = search_results_of(r_raw)
  /\ r_path' = "invoke"
  /\ r_pc' = "done"
  /\ UNCHANGED r_raw
  /\ UNCHANGED <<normVars, searchVars, chatVars, serviceVars, toolVars>>

\* get_conversation, lines 76-101, for one stored message
FilterStoredResults ==
  /\ r_pc = "input"
  /\ IsStoredList(r_raw)
  /\ r_returned' = [raised |-> FALSE, value |-> filtered_results(r_raw)]
  /\ r_path' = "read"
  /\ r_pc' = "done"
  /\ UNCHANGED r_raw
  /\ UNCHANGED <<normVars, searchVars, chatVars, serviceVars, toolVars>>

NextResults == FilterModelResults \/ FilterStoredResults

SpecResults == InitResults /\ [][NextResults]_vars

\* ------------------------------------------------------------------------
\* C8: every returned search result has a non-blank title and url; entries
\* lacking either are dropped, entries having both are kept, in input order;
\* [{title:"", url:"http://x"}, {title:"A", url:"http://y", snippet:"s"}]
\* is filtered to the second entry.
\* ------------------------------------------------------------------------
NonBlank(v) == IsStr(v) /\ \E i \in 1..Len(v) : v[i] \notin Whitespace

HasTitleAndUrl(result) ==
  /\ result.kind # "other"
  /\ "title" \in DOMAIN result.fields /\ NonBlank(result.fields["title"])
  /\ "url" \in DOMAIN result.fields /\ NonBlank(result.fields["url"])

\* the (title, url) pairs of a returned list
TitleUrlPairs(path, value) ==
  [i \in 1..Len(value) |->
     IF path = "read" THEN <<value[i].fields["title"], value[i].fields["url"]>>
     ELSE <<value[i].title, value[i].url>>]

ExpectedPairs(raw) ==
  LET kept == SelectSeq(raw, HasTitleAndUrl)
  IN  [i \in 1..Len(kept) |-> <<kept[i].fields["title"], kept[i].fields["url"]>>]

C8_ResultsHaveTitleAndUrl ==
  (r_pc = "done" /\ ~ r_returned.raised) =>
    /\ TitleUrlPairs(r_path, r_returned.value) = ExpectedPairs(r_raw)
    /\ \A i \in 1..Len(r_returned.value) :
         LET pair == TitleUrlPairs(r_path, r_returned.value)[i]
         IN  NonBlank(pair[1]) /\ NonBlank(pair[2])
    /\ r_raw = <<example_first, example_second>> =>
         /\ Len(r_returned.value) = 1
         /\ TitleUrlPairs(r_path, r_returned.value)[1] = <<<<"A">>, url_y>>
         /\ r_path = "read" => r_returned.value = <<example_second>>
         /\ r_path = "invoke" => r_returned.value[1].snippet = <<"s">>

C8_Witness ==
  /\ r_pc = "done"
  /\ r_path = "invoke"
  /\ r_raw = <<example_first, example_second>>
  /\ ~ r_returned.raised
  /\ Len(r_returned.value) = 1

\* ------------------------------------------------------------------------
\* Specification of the similarity search: the two routes, the two gateway
\* functions called directly, and get_relevant_context_with_vectors
\* ------------------------------------------------------------------------
flu == <<"f", "l", "u">>

asthma == <<"a", "s", "t", "h", "m", "a">>

condition == <<"c", "o", "n", "d", "i", "t", "i", "o", "n">>

Memory(id, user, name, similarity) ==
  [id |-> id, userId |-> user, entityType |-> condition, entityName |-> name,
   relationships |-> <<>>, metadata |-> EmptyDict, conversationId |-> None,
   similarity |-> similarity]

\* the rows of the index, each with its similarity to the query (percent)
StoredMemories ==
  {Memory("m1", "u1", flu, 90), Memory("m2", "u1", asthma, 60), Memory("m3", "u2", flu, 80)}

StoredMessages ==
  {[id |-> "msg1", conversationId |-> "c1", role |-> "user", content |-> fever,
    similarity |-> 85],
   [id |-> "msg2", conversationId |-> "c2", role |-> "assistant", content |-> flu,
    similarity |-> 75]}

\* Conversation.user_id of the stored conversations
ConversationOwner == [c1 |-> "u1", c2 |-> "u2"]

SearchUsers == {"u1", "u2"}

SearchPaths ==
  {"search_memories", "search_messages_endpoint", "get_relevant_context_with_vectors",
   "search_similar_patient_memories", "search_similar_messages"}

MessagePaths == {"search_messages_endpoint", "search_similar_messages"}

Thresholds == {-10, 0, 70, 100, 150}

Counts == {0, 1, 5, 50, 51, 100, 101}

Queries == {fever, <<>>, <<" ">>}

Modes == {"LOCAL", "OPENAI"}

Providers == [mode : Modes, outcome : {"ok", "error", "unavailable"}]

IndexOutcomes == {"ok", "error", "malformed"}

\* user is the authenticated requester. The message paths take the
\* conversation id that the request names, or none; the memory route takes
\* no owner from the request (owner is what a request may name in vain); the
\* functions called directly are given the requester as owner.
SearchCalls ==
  {c \in [path : SearchPaths, user : SearchUsers, query : Queries,
          owner : SearchUsers \cup {"c1", "c2", None},
          match_threshold : Thresholds, match_count : Counts,
          vec1 : {<<>>}, vec2 : {<<>>}] :
     IF c.path \in MessagePaths THEN c.owner \in {"c1", "c2", None}
     ELSE IF c.path = "search_memories" THEN c.owner \in SearchUsers
     ELSE c.owner = c.user}

Components == {-1, 0, 1}

Vectors == SeqsUpTo(Components, MaxVector)

CosineCalls ==
  {[NoCall EXCEPT !.path = "cosine_similarity", !.vec1 = v, !.vec2 = w] :
     v \in Vectors, w \in Vectors}

InitSearch ==
  /\ s_call \in SearchCalls \cup CosineCalls
  /\ s_result = NoResult
  /\ s_pc = "called"
  /\ IdleNormalize
  /\ IdleResults
  /\ IdleChat
  /\ IdleService

\* the result record of a route
RouteResult(answer, provider, index) ==
  [status |-> answer.status, raised |-> FALSE, rows |-> answer.results,
   memoryContext |-> <<>>, similarity |-> NoSimilarity,
   provider_calls |-> answer.provider_calls,
   index_calls |-> answer.index_calls, provider |-> provider, index |-> index]

\* the result record of a gateway function called directly
GatewayResult(found, provider, index) ==
  [status |-> 0, raised |-> found.raised, rows |-> found.rows, memoryContext |-> <<>>,
   similarity |-> NoSimilarity,
   provider_calls |-> found.provider_calls, index_calls |-> found.index_calls,
   provider |-> provider, index |-> index]

SearchMemoriesRoute(provider, index) ==
  /\ s_pc = "called"
  /\ s_call.path = "search_memories"
  /\ s_result' = RouteResult(
       search_route(StoredMemories, "userId", MaxMemoryCount, s_call.query, s_call.user,
                    s_call.match_threshold, s_call.match_count, provider, index),
       provider, index)
  /\ s_pc' = "done"
  /\ UNCHANGED s_call
  /\ UNCHANGED <<normVars, resultVars, chatVars, serviceVars, toolVars>>

SearchMessagesRoute(provider, index) ==
  /\ s_pc = "called"
  /\ s_call.path = "search_messages_endpoint"
  /\ s_result' = RouteResult(
       search_route(StoredMessages, "conversationId", MaxMessageCount, s_call.query,
                    s_call.owner, s_call.match_threshold, s_call.match_count,
                    provider, index),
       provider, index)
  /\ s_pc' = "done"
  /\ UNCHANGED s_call
  /\ UNCHANGED <<normVars, resultVars, chatVars, serviceVars, toolVars>>

SearchSimilarPatientMemories(provider, index) ==
  /\ s_pc = "called"
  /\ s_call.path = "search_similar_patient_memories"
  /\ s_result' = GatewayResult(
       search_similar(StoredMemories, "userId", s_call.query, s_call.owner,
                      s_call.match_threshold, s_call.match_count, provider, index),
       provider, index)
  /\ s_pc' = "done"
  /\ UNCHANGED s_call
  /\ UNCHANGED <<normVars, resultVars, chatVars, serviceVars, toolVars>>

SearchSimilarMessages(provider, index) ==
  /\ s_pc = "called"
  /\ s_call.path = "search_similar_messages"
  /\ s_result' = GatewayResult(
       search_similar(StoredMessages, "conversationId", s_call.query, s_call.owner,
                      s_call.match_threshold, s_call.match_count, provider, index),
       provider, index)
  /\ s_pc' = "done"
  /\ UNCHANGED s_call
  /\ UNCHANGED <<normVars, resultVars, chatVars, serviceVars, toolVars>>

GetRelevantContext(provider, index) ==
  /\ s_pc = "called"
  /\ s_call.path = "get_relevant_context_with_vectors"
  /\ LET context == get_relevant_context_with_vectors(
                      StoredMemories, s_call.owner, s_call.query, s_call.match_count,
                      s_call.match_threshold, provider, index)
     IN  s_result' = [status |-> 0, raised |-> context.raised,
                      rows |-> <<>>, memoryContext |-> context.memoryContext,
                      similarity |-> NoSimilarity,
                      provider_calls |-> context.provider_calls,
                      index_calls |-> context.index_calls,
                      provider |-> provider, index |-> index]
  /\ s_pc' = "done"
  /\ UNCHANGED s_call
  /\ UNCHANGED <<normVars, resultVars, chatVars, serviceVars, toolVars>>

\* EmbeddingService.cosine_similarity(vec1, vec2)
CosineSimilarity ==
  /\ s_pc = "called"
  /\ s_call.path = "cosine_similarity"
  /\ LET answer == cosine_similarity(s_call.vec1, s_call.vec2)
     IN  s_result' = [NoResult EXCEPT !.raised = answer.raised,
                                      !.similarity = answer.value]
  /\ s_pc' = "done"
  /\ UNCHANGED s_call
  /\ UNCHANGED <<normVars, resultVars, chatVars, serviceVars, toolVars>>

NextSearch ==
  \/ \E provider \in Providers, index \in IndexOutcomes :
       \/ SearchMemoriesRoute(provider, index)
       \/ SearchMessagesRoute(provider, index)
       \/ SearchSimilarPatientMemories(provider, index)
       \/ SearchSimilarMessages(provider, index)
       \/ GetRelevantContext(provider, index)
  \/ CosineSimilarity

SpecSearch == InitSearch /\ [][NextSearch]_vars

\* ------------------------------------------------------------------------
\* C5: the two search functions never raise; when embedding generation or
\* the external index fails they return the empty sequence, and
\* get_relevant_context_with_vectors then returns an empty memoryContext.
\* ------------------------------------------------------------------------
BlankText(text) == \A i \in 1..Len(text) : text[i] \in Whitespace

\* the embedding could not be generated, or the index call failed
SearchFailed ==
  \/ s_result.provider.outcome # "ok"
  \/ MODES[s_result.provider.mode].dimensions # StoredDimension
  \/ BlankText(s_call.query)
  \/ s_result.index # "ok"

C5_SearchIsBestEffort ==
  (s_pc = "done" /\ s_call.path \in {"search_similar_patient_memories",
                                     "search_similar_messages",
                                     "get_relevant_context_with_vectors"}) =>
    /\ ~ s_result.raised
    /\ SearchFailed => (s_result.rows = <<>> /\ s_result.memoryContext = <<>>)

\* the index times out on a query that has a match: the context is empty
C5_Witness ==
  /\ s_pc = "done"
  /\ s_call.path = "get_relevant_context_with_vectors"
  /\ s_call.query = fever
  /\ s_call.match_threshold = 70
  /\ s_call.match_count = 5
  /\ s_result.provider = LocalService
  /\ s_result.index = "error"
  /\ s_result.index_calls = 1
  /\ s_result.memoryContext = <<>>

\* ------------------------------------------------------------------------
\* C6: a memory search with threshold outside [0,1] or topK outside [1,50],
\* and a message search with threshold outside [0,1] or topK outside
\* [1,100], fails with a client-input error without invoking the embedding
\* provider or the index, on every path that reaches the search gateway.
\* ------------------------------------------------------------------------
InvalidParameters(call) ==
  \/ call.match_threshold < 0
  \/ call.match_threshold > 100
  \/ call.match_count < 1
  \/ call.match_count > (IF call.path \in MessagePaths THEN MaxMessageCount
                         ELSE MaxMemoryCount)

C6_InvalidParametersRejected ==
  (s_pc = "done" /\ InvalidParameters(s_call) /\ Truthy(s_call.query)) =>
    /\ s_result.status = 400
    /\ s_result.provider_calls = 0
    /\ s_result.index_calls = 0

\* the same, for the two routes alone
C6_RoutesRejectInvalidParameters ==
  (/\ s_pc = "done"
   /\ s_call.path \in {"search_memories", "search_messages_endpoint"}
   /\ InvalidParameters(s_call) /\ Truthy(s_call.query)) =>
    /\ s_result.status = 400
    /\ s_result.provider_calls = 0
    /\ s_result.index_calls = 0

\* ------------------------------------------------------------------------
\* C18: vectors of different lengths are never compared silently:
\* cosine_similarity fails on a length mismatch, and a similarity search
\* whose query vector (1536 elements in OPENAI mode) differs in length from
\* the stored vectors (384) fails explicitly rather than yielding a result
\* list.
\* ------------------------------------------------------------------------
\* a finished search that handed the index a query vector of another length
\* than the stored vectors
MismatchedSearch ==
  /\ s_pc = "done"
  /\ s_call.path \in SearchPaths
  /\ s_result.provider.outcome = "ok"
  /\ s_result.provider.mode = "OPENAI"
  /\ s_result.provider_calls = 1
  /\ s_result.index = "ok"

MismatchedCosine ==
  /\ s_pc = "done"
  /\ s_call.path = "cosine_similarity"
  /\ Len(s_call.vec1) # Len(s_call.vec2)

C18_MismatchFailsExplicitly ==
  /\ MismatchedCosine => s_result.raised
  /\ MismatchedSearch => (s_result.raised \/ s_result.status >= 400)

\* C18 as the code has it: cosine_similarity raises; the search refuses the
\* query vector and compares nothing, and the function turns that failure
\* into the empty list, which a route answers with 200.
C18_MismatchNeverCompared ==
  /\ MismatchedCosine => (s_result.raised /\ s_result.similarity = NoSimilarity)
  /\ MismatchedSearch =>
       /\ s_result.index_calls = 1
       /\ s_result.rows = <<>>
       /\ s_result.memoryContext = <<>>
       /\ ~ s_result.raised
       /\ s_result.status \in {0, 200}

\* a memory search in OPENAI mode for a query that has a stored match
C18_Witness ==
  /\ s_pc = "done"
  /\ s_call.path = "search_memories"
  /\ s_call.user = "u1"
  /\ s_call.query = fever
  /\ s_call.match_threshold = 70
  /\ s_call.match_count = 5
  /\ s_result.provider = [mode |-> "OPENAI", outcome |-> "ok"]
  /\ s_result.index = "ok"
  /\ s_result.index_calls = 1
  /\ s_result.status = 200
  /\ s_result.rows = <<>>

\* ------------------------------------------------------------------------
\* C20: similarity search is owner-scoped: a memory search of user U is
\* delegated with U as owner filter, a message search returns only messages
\* of a conversation that belongs to the requester, and no search request
\* of U returns memories or messages of another user.
\* ------------------------------------------------------------------------
OwnerOfRow(row) ==
  IF "userId" \in DOMAIN row THEN row.userId ELSE ConversationOwner[row.conversationId]

C20_SearchIsOwnerScoped ==
  (s_pc = "done" /\ s_call.path \in {"search_memories", "search_messages_endpoint"}) =>
    \A i \in 1..Len(s_result.rows) : OwnerOfRow(s_result.rows[i]) = s_call.user

\* the same for the memory route alone
C20_MemorySearchIsOwnerScoped ==
  (s_pc = "done" /\ s_call.path = "search_memories") =>
    \A i \in 1..Len(s_result.rows) : s_result.rows[i].userId = s_call.user

\* u1 names the conversation of u2 and is given its message
C20_ForeignMessageReturned ==
  /\ s_pc = "done"
  /\ s_call.path = "search_messages_endpoint"
  /\ s_call.user = "u1"
  /\ s_call.owner = "c2"
  /\ s_result.status = 200
  /\ Len(s_result.rows) = 1
  /\ s_result.rows[1].conversationId = "c2"

\* ------------------------------------------------------------------------
\* Specification of the chat path: routes/chat.py send_message, one handler
\* per request, and the save_messages_background thread it starts
\* ------------------------------------------------------------------------
ConversationIds == {"c1"}

Users == {None, "u1"}

ChatTexts == {hello, fever}

reply == <<"r", "e", "s", "t">>

\* the search_results attribute of a completion
CompletionResults ==
  {<<>>, <<example_first, example_second>>, <<TitleUrl("dict", <<"A">>, NumberValue)>>}

\* the UserPreferences row of each user that has one
StoredPreferences ==
  [u \in {"u1"} |-> camelPrefs("young", "simple", None, "False", "brief")]

is_temporary_chat(r) == request[r].conversation_id = None

\* a Message row; request is the handler whose thread wrote it
Row(conversation_id, role, content, search_results, r) ==
  [conversation_id |-> conversation_id, role |-> role, content |-> content,
   search_results |-> search_results, request |-> r]

\* db.query(Message).filter(conversation_id).order_by(desc(created_at)).limit(2),
\* reversed, as role/content pairs
history(conversation_id) ==
  LET rows == SelectSeq(db_messages, LAMBDA m : m.conversation_id = conversation_id)
      last_two == SubSeq(rows, IF Len(rows) > 2 THEN Len(rows) - 1 ELSE 1, Len(rows))
  IN  [i \in 1..Len(last_two) |-> Msg(last_two[i].role, last_two[i].content)]

\* lines 56-69
user_context_of(user) ==
  IF user # None /\ user \in DOMAIN StoredPreferences
    THEN ContextOf(StoredPreferences[user]) ELSE EmptyDict

\* mutant: the memory context of the user's matching memories is folded into
\* the system prompt
request_messages_WithMemory(r) ==
  LET plain == api_messages(messages_for_api(session_context[r], request[r].message),
                            user_context[r], request[r].message)
      context == get_relevant_context_with_vectors(
                   StoredMemories, request[r].user, request[r].message, 5,
                   RelevanceThreshold, LocalService, "ok")
  IN  [plain EXCEPT ![1].content = @ \o context.memoryContext]

\* lines 71-90: the sequence call_perplexity sends for the request
request_messages(r) ==
  api_messages(messages_for_api(session_context[r], request[r].message),
               user_context[r], request[r].message)

ErrorResponse(status, error) == [NoResponse EXCEPT !.status = status, !.error = error]

\* lines 125-138 and 142-155
OkResponse(r) ==
  [status |-> 200, error |-> "", conversationId |-> request[r].conversation_id,
   content |-> model_result[r].content, searchResults |-> model_result[r].searchResults]

Init ==
  /\ ChatStart("idle")
  /\ db_conversations = ConversationIds
  /\ IdleNormalize
  /\ IdleResults
  /\ IdleSearch
  /\ IdleService

\* lines 22-33: the request is parsed; an empty message is answered with 400
Receive(r) ==
  /\ pc[r] = "idle"
  /\ \E conversation_id \in ConversationIds \cup {None},
        message \in ChatTexts \cup {<<>>},
        user \in Users :
       /\ request' = [request EXCEPT ![r] =
                        [conversation_id |-> conversation_id, message |-> message,
                         user |-> user,
                         after |-> {a \in Requests : pc[a] = "returned"
                                                      /\ response[a].status = 200}]]
       /\ IF ~ Truthy(message)
            THEN /\ response' = [response EXCEPT ![r] =
                                   ErrorResponse(400, "message is required")]
                 /\ pc' = [pc EXCEPT ![r] = "returned"]
            ELSE /\ pc' = [pc EXCEPT ![r] = "received"]
                 /\ UNCHANGED response
  /\ UNCHANGED <<db_messages, session_context, user_context, sent, model_calls,
                 model_outcome, model_result, thread, dispatches, writes,
                 failures_logged, calls>>
  /\ UNCHANGED <<normVars, resultVars, searchVars, serviceVars, toolVars>>

\* lines 35-69: the last two messages of the conversation and the preferences
LoadContext(r) ==
  /\ pc[r] = "received"
  /\ session_context' = [session_context EXCEPT ![r] =
       IF is_temporary_chat(r) THEN <<>>
       ELSE build_session_context(history(request[r].conversation_id), 2)]
  /\ user_context' = [user_context EXCEPT ![r] = user_context_of(request[r].user)]
  /\ calls' = [calls EXCEPT ![r] =
       @ \o (IF is_temporary_chat(r) THEN <<>> ELSE <<"history">>)
         \o (IF request[r].user # None THEN <<"preferences">> ELSE <<>>)]
  /\ pc' = [pc EXCEPT ![r] = "built"]
  /\ UNCHANGED <<db_messages, request, sent, model_calls, model_outcome, model_result,
                 response, thread, dispatches, writes, failures_logged>>
  /\ UNCHANGED <<normVars, resultVars, searchVars, serviceVars, toolVars>>

\* lines 157-161: a database read raises, the handler answers 500
LoadContextFails(r) ==
  /\ pc[r] = "received"
  /\ ~ is_temporary_chat(r) \/ request[r].user # None
  /\ response' = [response EXCEPT ![r] = ErrorResponse(500, "database error")]
  /\ pc' = [pc EXCEPT ![r] = "returned"]
  /\ UNCHANGED <<db_messages, request, session_context, user_context, sent, model_calls,
                 model_outcome, model_result, thread, dispatches, writes,
                 failures_logged, calls>>
  /\ UNCHANGED <<normVars, resultVars, searchVars, serviceVars, toolVars>>

\* mutant: a failed model call is tried again
CallPerplexityFails_Retry(r) ==
  /\ pc[r] = "built"
  /\ model_calls[r] < 3
  /\ sent' = [sent EXCEPT ![r] = request_messages(r)]
  /\ model_calls' = [model_calls EXCEPT ![r] = @ + 1]
  /\ calls' = [calls EXCEPT ![r] = Append(@, "model")]
  /\ model_outcome' = [model_outcome EXCEPT ![r] = "failed"]
  /\ IF model_calls[r] < 1
       THEN UNCHANGED <<pc, response>>
       ELSE /\ response' = [response EXCEPT ![r] =
                              ErrorResponse(500, "Failed to get response from Perplexity API")]
            /\ pc' = [pc EXCEPT ![r] = "returned"]
  /\ UNCHANGED <<db_messages, request, session_context, user_context, model_result,
                 thread, dispatches, writes, failures_logged>>
  /\ UNCHANGED <<normVars, resultVars, searchVars, serviceVars, toolVars>>

\* mutant: the user message is stored before the model is called
CallPerplexityFails_SavesUser(r) ==
  /\ pc[r] = "built"
  /\ sent' = [sent EXCEPT ![r] = request_messages(r)]
  /\ model_calls' = [model_calls EXCEPT ![r] = @ + 1]
  /\ calls' = [calls EXCEPT ![r] = Append(@, "model")]
  /\ model_outcome' = [model_outcome EXCEPT ![r] = "failed"]
  /\ response' = [response EXCEPT ![r] =
                    ErrorResponse(500, "Failed to get response from Perplexity API")]
  /\ pc' = [pc EXCEPT ![r] = "returned"]
  /\ db_messages' =
       IF is_temporary_chat(r) THEN db_messages
       ELSE Append(db_messages, [conversation_id |-> request[r].conversation_id,
                                 role |-> "user", content |-> request[r].message,
                                 search_results |-> <<>>, request |-> r])
  /\ UNCHANGED <<request, session_context, user_context, model_result,
                 thread, dispatches, writes, failures_logged>>
  /\ UNCHANGED <<normVars, resultVars, searchVars, serviceVars, toolVars>>

\* lines 84-90 and 157-161, perplexity.py 227-234 and 277-279: the external
\* call raises (timeout, connectivity, API error after the transport's own
\* retries); call_perplexity raises its one generic exception, the handler
\* answers 500
CallPerplexityFails(r) ==
  /\ pc[r] = "built"
  /\ sent' = [sent EXCEPT ![r] = request_messages(r)]
  /\ model_calls' = [model_calls EXCEPT ![r] = @ + 1]
  /\ calls' = [calls EXCEPT ![r] = Append(@, "model")]
  /\ model_outcome' = [model_outcome EXCEPT ![r] = "failed"]
  /\ response' = [response EXCEPT ![r] =
                    ErrorResponse(500, "Failed to get response from Perplexity API")]
  /\ pc' = [pc EXCEPT ![r] = "returned"]
  /\ UNCHANGED <<db_messages, request, session_context, user_context, model_result,
                 thread, dispatches, writes, failures_logged>>
  /\ UNCHANGED <<normVars, resultVars, searchVars, serviceVars, toolVars>>

\* lines 84-90, perplexity.py 227-275: the external call returns a
\* completion; a completion whose search results cannot be read makes
\* call_perplexity raise the same generic exception
CallPerplexityReturns(r) ==
  /\ pc[r] = "built"
  /\ sent' = [sent EXCEPT ![r] = request_messages(r)]
  /\ model_calls' = [model_calls EXCEPT ![r] = @ + 1]
  /\ calls' = [calls EXCEPT ![r] = Append(@, "model")]
  /\ \E search_results_raw \in CompletionResults :
       LET search_results == search_results_of(search_results_raw)
       IN  IF search_results.raised
             THEN /\ model_outcome' = [model_outcome EXCEPT ![r] = "failed"]
                  /\ response' = [response EXCEPT ![r] =
                       ErrorResponse(500, "Failed to get response from Perplexity API")]
                  /\ pc' = [pc EXCEPT ![r] = "returned"]
                  /\ UNCHANGED model_result
             ELSE /\ model_outcome' = [model_outcome EXCEPT ![r] = "ok"]
                  /\ model_result' = [model_result EXCEPT ![r] =
                       [content |-> reply, searchResults |-> search_results.value]]
                  /\ pc' = [pc EXCEPT ![r] = "answered"]
                  /\ UNCHANGED response
  /\ UNCHANGED <<db_messages, request, session_context, user_context, thread,
                 dispatches, writes, failures_logged>>
  /\ UNCHANGED <<normVars, resultVars, searchVars, serviceVars, toolVars>>

\* mutant: the thread is started for a temporary chat too
StartBackgroundSave_Always(r) ==
  /\ pc[r] = "answered"
  /\ thread' = [thread EXCEPT ![r] = "started"]
  /\ dispatches' = [dispatches EXCEPT ![r] = @ + 1]
  /\ calls' = [calls EXCEPT ![r] = Append(@, "thread")]
  /\ pc' = [pc EXCEPT ![r] = "dispatched"]
  /\ UNCHANGED <<db_messages, request, session_context, user_context, sent, model_calls,
                 model_outcome, model_result, response, writes, failures_logged>>
  /\ UNCHANGED <<normVars, resultVars, searchVars, serviceVars, toolVars>>

\* lines 94-120: threading.Thread(target=save_messages_background).start()
StartBackgroundSave(r) ==
  /\ pc[r] = "answered"
  /\ ~ is_temporary_chat(r)
  /\ thread' = [thread EXCEPT ![r] = "started"]
  /\ dispatches' = [dispatches EXCEPT ![r] = @ + 1]
  /\ calls' = [calls EXCEPT ![r] = Append(@, "thread")]
  /\ pc' = [pc EXCEPT ![r] = "dispatched"]
  /\ UNCHANGED <<db_messages, request, session_context, user_context, sent, model_calls,
                 model_outcome, model_result, response, writes, failures_logged>>
  /\ UNCHANGED <<normVars, resultVars, searchVars, serviceVars, toolVars>>

\* mutant: the handler joins the thread before it returns
Respond_AfterJoin(r) ==
  /\ \/ pc[r] = "dispatched" /\ thread[r] \in {"finished", "failed"}
     \/ pc[r] = "answered" /\ is_temporary_chat(r)
  /\ response' = [response EXCEPT ![r] = OkResponse(r)]
  /\ pc' = [pc EXCEPT ![r] = "returned"]
  /\ UNCHANGED <<db_messages, request, session_context, user_context, sent, model_calls,
                 model_outcome, model_result, thread, dispatches, writes,
                 failures_logged, calls>>
  /\ UNCHANGED <<normVars, resultVars, searchVars, serviceVars, toolVars>>

\* lines 122-155: the handler returns the response
Respond(r) ==
  /\ \/ pc[r] = "dispatched"
     \/ pc[r] = "answered" /\ is_temporary_chat(r)
  /\ response' = [response EXCEPT ![r] = OkResponse(r)]
  /\ pc' = [pc EXCEPT ![r] = "returned"]
  /\ UNCHANGED <<db_messages, request, session_context, user_context, sent, model_calls,
                 model_outcome, model_result, thread, dispatches, writes,
                 failures_logged, calls>>
  /\ UNCHANGED <<normVars, resultVars, searchVars, serviceVars, toolVars>>

\* line 98: the thread begins to run
BackgroundBegin(r) ==
  /\ thread[r] = "started"
  /\ thread' = [thread EXCEPT ![r] = "running"]
  /\ UNCHANGED <<db_messages, pc, request, session_context, user_context, sent,
                 model_calls, model_outcome, model_result, response, dispatches, writes,
                 failures_logged, calls>>
  /\ UNCHANGED <<normVars, resultVars, searchVars, serviceVars, toolVars>>

\* db_operations.create_message with generate_embedding=False: one row
create_message(conversation_id, role, content, search_results, r) ==
  Append(db_messages, Row(conversation_id, role, content, search_results, r))

\* line 101
SaveUserMessage(r) ==
  /\ thread[r] = "running"
  /\ writes' = [writes EXCEPT ![r].user = @ + 1]
  /\ db_messages' = create_message(request[r].conversation_id, "user",
                                   request[r].message, <<>>, r)
  /\ thread' = [thread EXCEPT ![r] = "user_saved"]
  /\ UNCHANGED <<pc, request, session_context, user_context, sent, model_calls,
                 model_outcome, model_result, response, dispatches, failures_logged,
                 calls>>
  /\ UNCHANGED <<normVars, resultVars, searchVars, serviceVars, toolVars>>

\* mutant: a failed write is tried again
SaveUserMessageFails_Retry(r) ==
  /\ thread[r] = "running"
  /\ writes[r].user < 3
  /\ writes' = [writes EXCEPT ![r].user = @ + 1]
  /\ failures_logged' = failures_logged \cup {r}
  /\ UNCHANGED <<db_messages, pc, request, session_context, user_context, sent,
                 model_calls, model_outcome, model_result, response, thread, dispatches,
                 calls>>
  /\ UNCHANGED <<normVars, resultVars, searchVars, serviceVars, toolVars>>

\* mutant: the failure of the user write is swallowed, the thread goes on
SaveUserMessageFails_Continues(r) ==
  /\ thread[r] = "running"
  /\ writes' = [writes EXCEPT ![r].user = @ + 1]
  /\ failures_logged' = failures_logged \cup {r}
  /\ thread' = [thread EXCEPT ![r] = "user_saved"]
  /\ UNCHANGED <<db_messages, pc, request, session_context, user_context, sent,
                 model_calls, model_outcome, model_result, response, dispatches, calls>>
  /\ UNCHANGED <<normVars, resultVars, searchVars, serviceVars, toolVars>>

\* lines 101, 114-117: the write raises; the failure is printed, the thread ends
SaveUserMessageFails(r) ==
  /\ thread[r] = "running"
  /\ writes' = [writes EXCEPT ![r].user = @ + 1]
  /\ failures_logged' = failures_logged \cup {r}
  /\ thread' = [thread EXCEPT ![r] = "failed"]
  /\ UNCHANGED <<db_messages, pc, request, session_context, user_context, sent,
                 model_calls, model_outcome, model_result, response, dispatches, calls>>
  /\ UNCHANGED <<normVars, resultVars, searchVars, serviceVars, toolVars>>

\* lines 103-113
SaveAssistantMessage(r) ==
  /\ thread[r] = "user_saved"
  /\ writes' = [writes EXCEPT ![r].assistant = @ + 1]
  /\ db_messages' = create_message(request[r].conversation_id, "assistant",
                                   model_result[r].content,
                                   model_result[r].searchResults, r)
  /\ thread' = [thread EXCEPT ![r] = "finished"]
  /\ UNCHANGED <<pc, request, session_context, user_context, sent, model_calls,
                 model_outcome, model_result, response, dispatches, failures_logged,
                 calls>>
  /\ UNCHANGED <<normVars, resultVars, searchVars, serviceVars, toolVars>>

\* lines 103-117
SaveAssistantMessageFails(r) ==
  /\ thread[r] = "user_saved"
  /\ writes' = [writes EXCEPT ![r].assistant = @ + 1]
  /\ failures_logged' = failures_logged \cup {r}
  /\ thread' = [thread EXCEPT ![r] = "failed"]
  /\ UNCHANGED <<db_messages, pc, request, session_context, user_context, sent,
                 model_calls, model_outcome, model_result, response, dispatches, calls>>
  /\ UNCHANGED <<normVars, resultVars, searchVars, serviceVars, toolVars>>

Next ==
  \E r \in Requests :
    \/ Receive(r)
    \/ LoadContext(r)
    \/ LoadContextFails(r)
    \/ CallPerplexityReturns(r)
    \/ CallPerplexityFails(r)
    \/ StartBackgroundSave(r)
    \/ Respond(r)
    \/ BackgroundBegin(r)
    \/ SaveUserMessage(r)
    \/ SaveUserMessageFails(r)
    \/ SaveAssistantMessage(r)
    \/ SaveAssistantMessageFails(r)

Spec == Init /\ [][Next]_vars

\* ------------------------------------------------------------------------
\* C4, as stated: every chat request embeds the new text, searches the
\* user's memories, assembles the matches and only then calls the model, and
\* when a memory matches with similarity >= 0.7 the memory context is part of
\* the system prompt sent.
\* ------------------------------------------------------------------------
Positions(seq, x) == {i \in 1..Len(seq) : seq[i] = x}

\* x is called, y is called, and every call of x precedes every call of y
CalledBefore(seq, x, y) ==
  /\ Positions(seq, x) # {}
  /\ Positions(seq, y) # {}
  /\ \A i \in Positions(seq, x), j \in Positions(seq, y) : i < j

MemoryContextHeader == "Relevant Patient History (from previous conversations):"

HoldsMemoryContext(messages) ==
  \E i \in 1..Len(messages) :
    \E j \in 1..Len(messages[i].content) : messages[i].content[j] = MemoryContextHeader

\* the memories of the user that match the query with similarity >= 0.7
MatchingMemories(user) ==
  {m \in StoredMemories : m.userId = user /\ m.similarity >= RelevanceThreshold}

C7_ModelFailureIsFatalNoRetry ==
  \A r \in Requests :
    /\ model_calls[r] <= 1
    /\ model_outcome[r] = "failed" =>
         /\ model_calls[r] = 1
         /\ pc[r] = "returned"
         /\ response[r] = ErrorResponse(500, "Failed to get response from Perplexity API")
         /\ response[r].content = <<>>
         /\ thread[r] = "none"

C7_Witness ==
  \E r \in Requests :
    /\ model_outcome[r] = "failed"
    /\ pc[r] = "returned"
    /\ response[r].status = 500
    /\ model_calls[r] = 1

\* ------------------------------------------------------------------------
\* C9: persistence of a regular chat request is dispatched at most once; a
\* failed background write is logged, not retried, and does not change the
\* response the user receives.
\* ------------------------------------------------------------------------
C9_AtMostOneDispatchNoRetry ==
  \A r \in Requests :
    /\ dispatches[r] <= 1
    /\ writes[r].user <= 1
    /\ writes[r].assistant <= 1
    /\ thread[r] = "failed" =>
         /\ r \in failures_logged
         /\ writes[r].user + writes[r].assistant \in {1, 2}
         /\ pc[r] = "returned" => response[r] = OkResponse(r)
         /\ pc[r] = "returned" => response[r].status = 200
    /\ (pc[r] = "returned" /\ dispatches[r] = 1) => response[r].status = 200

C9_Witness ==
  \E r \in Requests :
    /\ thread[r] = "failed"
    /\ r \in failures_logged
    /\ writes[r] = [user |-> 1, assistant |-> 0]
    /\ pc[r] = "returned"
    /\ response[r].status = 200
    /\ response[r].content = reply

\* ------------------------------------------------------------------------
\* C10: send_message does not wait on persistence: once the thread is
\* started the handler can return, whether the thread has not begun, is
\* running, or has ended.
\* ------------------------------------------------------------------------
C10_HandlerNeverWaits ==
  \A r \in Requests :
    pc[r] = "dispatched" =>
      /\ thread[r] \in {"started", "running", "user_saved", "finished", "failed"}
      /\ ENABLED Respond(r)

\* the handler has returned and its thread has not begun to run
C10_Witness ==
  \E r \in Requests :
    /\ pc[r] = "returned"
    /\ response[r].status = 200
    /\ thread[r] = "started"

\* ------------------------------------------------------------------------
\* Specification of the process-wide service: app.py (67-84) starts the
\* process, the threads of parallel requests call get_embedding_service
\* (services/embedding_service.py 332-342)
\* ------------------------------------------------------------------------
IdleOthersOfSingleton ==
  /\ IdleNormalize
  /\ IdleResults
  /\ IdleSearch
  /\ IdleChat
  /\ IdleEmbed
  /\ IdlePersist
  /\ IdleAssemble
  /\ IdleTool

InitSingleton ==
  /\ embedding_service_instance = 0
  /\ constructions = 0
  /\ server = "starting"
  /\ g_pc = [t \in Callers |-> "ready"]
  /\ g_local = [t \in Callers |-> 0]
  /\ g_calls = [t \in Callers |-> 0]
  /\ g_returned = {}
  /\ IdleOthersOfSingleton

Serving == server \in {"main", "imported"}

\* app.py 74-84, the module run as a script: get_embedding_service is called
\* before app.run serves the first request
Preload ==
  /\ server = "starting"
  /\ constructions' = constructions + 1
  /\ embedding_service_instance' = constructions + 1
  /\ g_returned' = g_returned \cup {constructions + 1}
  /\ server' = "main"
  /\ UNCHANGED <<g_pc, g_local, g_calls>>
  /\ UNCHANGED <<normVars, resultVars, searchVars, chatVars, embedVars, persistVars,
                 assembleVars, toolVars>>

\* EmbeddingService() raises in the pre-load: the script ends
PreloadFails ==
  /\ server = "starting"
  /\ server' = "exited"
  /\ UNCHANGED <<embedding_service_instance, constructions, g_pc, g_local, g_calls,
                 g_returned>>
  /\ UNCHANGED <<normVars, resultVars, searchVars, chatVars, embedVars, persistVars,
                 assembleVars, toolVars>>

\* app.py 67: the module is imported (from app import app) and its app
\* object is served; the block under __name__ == '__main__' does not run
ServeImported ==
  /\ server = "starting"
  /\ server' = "imported"
  /\ UNCHANGED <<embedding_service_instance, constructions, g_pc, g_local, g_calls,
                 g_returned>>
  /\ UNCHANGED <<normVars, resultVars, searchVars, chatVars, embedVars, persistVars,
                 assembleVars, toolVars>>

\* line 339: if _embedding_service_instance is None
CheckInstance(t) ==
  /\ Serving
  /\ g_pc[t] = "ready"
  /\ g_calls[t] < MaxCalls
  /\ g_pc' = [g_pc EXCEPT ![t] = IF embedding_service_instance = 0 THEN "construct"
                                 ELSE "return"]
  /\ UNCHANGED <<embedding_service_instance, constructions, server, g_local, g_calls,
                 g_returned>>
  /\ UNCHANGED <<normVars, resultVars, searchVars, chatVars, embedVars, persistVars,
                 assembleVars, toolVars>>

\* line 340, right-hand side: EmbeddingService() loads the model or builds
\* the client
Construct(t) ==
  /\ g_pc[t] = "construct"
  /\ constructions' = constructions + 1
  /\ g_local' = [g_local EXCEPT ![t] = constructions + 1]
  /\ g_pc' = [g_pc EXCEPT ![t] = "assign"]
  /\ UNCHANGED <<embedding_service_instance, server, g_calls, g_returned>>
  /\ UNCHANGED <<normVars, resultVars, searchVars, chatVars, embedVars, persistVars,
                 assembleVars, toolVars>>

\* EmbeddingService() raises (lines 68, 90, 103, 119): the call ends with the
\* exception, the global stays None
ConstructFails(t) ==
  /\ g_pc[t] = "construct"
  /\ g_pc' = [g_pc EXCEPT ![t] = "ready"]
  /\ g_calls' = [g_calls EXCEPT ![t] = @ + 1]
  /\ UNCHANGED <<embedding_service_instance, constructions, server, g_local, g_returned>>
  /\ UNCHANGED <<normVars, resultVars, searchVars, chatVars, embedVars, persistVars,
                 assembleVars, toolVars>>

\* line 340, the assignment to the global
Assign(t) ==
  /\ g_pc[t] = "assign"
  /\ embedding_service_instance' = g_local[t]
  /\ g_local' = [g_local EXCEPT ![t] = 0]
  /\ g_pc' = [g_pc EXCEPT ![t] = "return"]
  /\ UNCHANGED <<constructions, server, g_calls, g_returned>>
  /\ UNCHANGED <<normVars, resultVars, searchVars, chatVars, embedVars, persistVars,
                 assembleVars, toolVars>>

\* line 342: return _embedding_service_instance
Return(t) ==
  /\ g_pc[t] = "return"
  /\ g_returned' = g_returned \cup {embedding_service_instance}
  /\ g_calls' = [g_calls EXCEPT ![t] = @ + 1]
  /\ g_pc' = [g_pc EXCEPT ![t] = "ready"]
  /\ UNCHANGED <<embedding_service_instance, constructions, server, g_local>>
  /\ UNCHANGED <<normVars, resultVars, searchVars, chatVars, embedVars, persistVars,
                 assembleVars, toolVars>>

NextSingleton ==
  \/ Preload
  \/ PreloadFails
  \/ ServeImported
  \/ \E t \in Callers :
       \/ CheckInstance(t)
       \/ Construct(t)
       \/ ConstructFails(t)
       \/ Assign(t)
       \/ Return(t)

SpecSingleton == InitSingleton /\ [][NextSingleton]_vars

\* ------------------------------------------------------------------------
\* C11: under any interleaving of get_embedding_service calls of parallel
\* requests the EmbeddingService is constructed at most once per process,
\* and every call returns that same instance.
\* ------------------------------------------------------------------------
C11_ConstructedOnceForAll ==
  /\ constructions <= 1
  /\ Cardinality(g_returned) <= 1

\* the same for a process started as a script, where the pre-load of app.py
\* has built the instance before the first request is served
C11_ConstructedOnceAfterPreload ==
  server = "main" =>
    /\ constructions = 1
    /\ g_returned = {1}
    /\ embedding_service_instance = 1

\* two first calls of an imported app overlap: both build a service
C11_TwoConstructions ==
  /\ server = "imported"
  /\ constructions = 2
  /\ g_returned = {1, 2}

\* ------------------------------------------------------------------------
\* Specification of the embedding calls: EmbeddingService.generate_embedding
\* and generate_embeddings_batch, in either mode, the provider answering or
\* raising
\* ------------------------------------------------------------------------
Chars(n) == [i \in 1..n |-> "x"]

\* the longest text a mode's limit lets through, and the text one longer
LimitTexts == {Chars(MODES[m].max_tokens * 4 + d) : m \in Modes, d \in {0, 1}}

EmbedTexts == {fever, <<>>, <<" ">>, <<NL, " ">>, <<" ", "f", "l", "u">>, NoneText}
                \cup LimitTexts

BatchElements == {fever, <<" ", "f", "l", "u">>, <<>>, <<" ">>, NoneText, NumberValue}

EmbedCalls ==
  {[NoEmbedCall EXCEPT !.op = "generate_embedding", !.mode = m, !.text = t] :
     m \in Modes, t \in EmbedTexts}
  \cup
  {[NoEmbedCall EXCEPT !.op = "generate_embeddings_batch", !.mode = m, !.texts = ts] :
     m \in Modes, ts \in SeqsUpTo(BatchElements, MaxBatch)}

ProviderOutcomes == {"ok", "error"}

InitEmbed ==
  /\ e_call \in EmbedCalls
  /\ e_result = NoEmbedResult
  /\ e_pc = "called"
  /\ IdleNormalize
  /\ IdleResults
  /\ IdleSearch
  /\ IdleChat
  /\ IdleSingleton
  /\ IdlePersist
  /\ IdleAssemble
  /\ IdleTool

GenerateEmbedding(outcome) ==
  /\ e_pc = "called"
  /\ e_call.op = "generate_embedding"
  /\ e_result' =
       [answer |-> EmbeddingService_generate_embedding(
                     [mode |-> e_call.mode, outcome |-> outcome], e_call.text),
        outcome |-> outcome]
  /\ e_pc' = "done"
  /\ UNCHANGED e_call
  /\ UNCHANGED <<normVars, resultVars, searchVars, chatVars, singletonVars, persistVars,
                 assembleVars, toolVars>>

GenerateEmbeddingsBatch(outcome) ==
  /\ e_pc = "called"
  /\ e_call.op = "generate_embeddings_batch"
  /\ e_result' =
       [answer |-> generate_embeddings_batch(
                     [mode |-> e_call.mode, outcome |-> outcome], e_call.texts),
        outcome |-> outcome]
  /\ e_pc' = "done"
  /\ UNCHANGED e_call
  /\ UNCHANGED <<normVars, resultVars, searchVars, chatVars, singletonVars, persistVars,
                 assembleVars, toolVars>>

NextEmbed ==
  \E outcome \in ProviderOutcomes :
    \/ GenerateEmbedding(outcome)
    \/ GenerateEmbeddingsBatch(outcome)

SpecEmbed == InitEmbed /\ [][NextEmbed]_vars

\* a finished call of the named operation
Embedded(op) == e_pc = "done" /\ e_call.op = op

\* a str with a character that is not whitespace
NonBlankText(text) == text # NoneText /\ \E i \in 1..Len(text) : text[i] \notin Whitespace

ModeDimension(mode) == IF mode = "LOCAL" THEN 384 ELSE 1536

ModeLimit(mode) == IF mode = "LOCAL" THEN 2048 ELSE 32764

\* ------------------------------------------------------------------------
\* C12: for every text that is not empty and not whitespace only,
\* generate_embedding returns a vector whose length is the dimension of the
\* configured mode, 384 in LOCAL and 1536 in OPENAI mode.
\* ------------------------------------------------------------------------
C12_AlwaysVectorOfModeDimension ==
  (Embedded("generate_embedding") /\ NonBlankText(e_call.text)) =>
    /\ ~ e_result.answer.raised
    /\ e_result.answer.value = ModeDimension(e_call.mode)

\* C12 as the code has it: the vector has the mode's dimension when the
\* model or remote call answers; when that call raises, generate_embedding
\* returns None and raises nothing.
C12_VectorOfModeDimensionOrNone ==
  (Embedded("generate_embedding") /\ NonBlankText(e_call.text)) =>
    /\ ~ e_result.answer.raised
    /\ e_result.answer.provider_calls = 1
    /\ e_result.outcome = "ok" => e_result.answer.value = ModeDimension(e_call.mode)
    /\ e_result.outcome = "error" => e_result.answer.value = NoVector

\* a text embedded in OPENAI mode: 1536 elements
C12_Witness ==
  /\ Embedded("generate_embedding")
  /\ e_call.mode = "OPENAI"
  /\ e_call.text = fever
  /\ e_result.outcome = "ok"
  /\ e_result.answer.value = 1536

\* ------------------------------------------------------------------------
\* C13: generate_embedding with an empty or whitespace-only text raises
\* ValueError "Text cannot be empty" and does not invoke the model or the
\* remote provider.
\* ------------------------------------------------------------------------
C13_BlankTextRaisesBeforeProvider ==
  (Embedded("generate_embedding") /\ ~ NonBlankText(e_call.text)) =>
    /\ e_result.answer.raised
    /\ e_result.answer.error = "Text cannot be empty"
    /\ e_result.answer.provider_calls = 0
    /\ e_result.answer.encoded = NoneText
    /\ e_result.answer.value = NoVector

\* a text of whitespace alone, the provider being ready to answer
C13_Witness ==
  /\ Embedded("generate_embedding")
  /\ e_call.text = <<NL, " ">>
  /\ e_result.outcome = "ok"
  /\ e_result.answer.raised
  /\ e_result.answer.provider_calls = 0

\* ------------------------------------------------------------------------
\* C14: for every list of texts generate_embeddings_batch returns a
\* sequence of the length of the input in which position i holds the result
\* (vector or absent) for text i, also when individual elements fail.
\* ------------------------------------------------------------------------
C14_SameLengthForEveryList ==
  Embedded("generate_embeddings_batch") =>
    /\ ~ e_result.answer.raised
    /\ Len(e_result.answer.value) = Len(e_call.texts)

\* the text that stands for element t in the provider's input
InputFor(mode, t) ==
  IF mode = "LOCAL" THEN (IF t \in {NoneText, <<>>} THEN <<>> ELSE Strip(t))
  ELSE IF NonBlankText(t) THEN Strip(t) ELSE <<"e", "m", "p", "t", "y">>

\* C14 as the code has it: the empty list raises ValueError; for a list
\* that is not empty the result has the input's length, position i holding
\* the vector of text i, or every position holding None.
C14_SameLengthForNonEmptyList ==
  Embedded("generate_embeddings_batch") =>
    IF e_call.texts = <<>>
      THEN /\ e_result.answer.raised
           /\ e_result.answer.error = "Texts list cannot be empty"
           /\ e_result.answer.provider_calls = 0
      ELSE /\ ~ e_result.answer.raised
           /\ Len(e_result.answer.value) = Len(e_call.texts)
           /\ \/ \A i \in 1..Len(e_call.texts) : e_result.answer.value[i] = NoVector
              \/ /\ Len(e_result.answer.encoded) = Len(e_call.texts)
                 /\ \A i \in 1..Len(e_call.texts) :
                      /\ e_result.answer.value[i] = ModeDimension(e_call.mode)
                      /\ e_result.answer.encoded[i] = InputFor(e_call.mode, e_call.texts[i])

\* the provider raises on a list of two texts: two absent results
C14_Witness ==
  /\ Embedded("generate_embeddings_batch")
  /\ e_call.texts = <<fever, <<" ", "f", "l", "u">> >>
  /\ e_result.outcome = "error"
  /\ e_result.answer.value = <<NoVector, NoVector>>

\* ------------------------------------------------------------------------
\* C15: in generate_embeddings_batch one failure does not abort the batch:
\* when the embedding of one element fails only that element's result is
\* absent, every other element still receives its vector.
\* ------------------------------------------------------------------------
C15_OneFailureDoesNotAbort ==
  (Embedded("generate_embeddings_batch") /\ e_call.texts # <<>>
     /\ e_result.outcome = "ok") =>
    /\ ~ e_result.answer.raised
    /\ \A i \in 1..Len(e_call.texts) :
         NonBlankText(e_call.texts[i]) /\ IsStr(e_call.texts[i]) =>
           e_result.answer.value[i] = ModeDimension(e_call.mode)

\* the element that cannot be embedded takes the result of the other with it
C15_WholeBatchAbsent ==
  /\ Embedded("generate_embeddings_batch")
  /\ e_call.texts = <<fever, NumberValue>>
  /\ e_result.outcome = "ok"
  /\ e_result.answer.value = <<NoVector, NoVector>>
  /\ e_result.answer.provider_calls = 0

\* ------------------------------------------------------------------------
\* C16: in both modes the text handed to the encoder is the prefix of the
\* input of at most the mode's maximum length (2048 characters in LOCAL,
\* 32764 in OPENAI mode): a text within the limit is passed unchanged, a
\* longer one is cut to exactly the limit.
\* ------------------------------------------------------------------------
C16_EncoderGetsPrefixWithinLimit ==
  (Embedded("generate_embedding") /\ e_result.answer.provider_calls = 1) =>
    /\ Len(e_result.answer.encoded) <= ModeLimit(e_call.mode)
    /\ e_result.answer.encoded =
         SubSeq(e_call.text, 1, Len(e_result.answer.encoded))
    /\ Len(e_call.text) <= ModeLimit(e_call.mode) =>
         e_result.answer.encoded = e_call.text
    /\ Len(e_call.text) > ModeLimit(e_call.mode) =>
         Len(e_result.answer.encoded) = ModeLimit(e_call.mode)

\* the same for the OPENAI mode alone
C16_RemoteEncoderGetsPrefixWithinLimit ==
  (Embedded("generate_embedding") /\ e_result.answer.provider_calls = 1
     /\ e_call.mode = "OPENAI") =>
    /\ Len(e_result.answer.encoded) <= 32764
    /\ e_result.answer.encoded =
         SubSeq(e_call.text, 1, Len(e_result.answer.encoded))
    /\ Len(e_call.text) <= 32764 => e_result.answer.encoded = e_call.text
    /\ Len(e_call.text) > 32764 => Len(e_result.answer.encoded) = 32764

\* LOCAL mode hands the model a text of 2049 characters
C16_LocalEncoderGetsWholeText ==
  /\ Embedded("generate_embedding")
  /\ e_call.mode = "LOCAL"
  /\ Len(e_call.text) = 2049
  /\ e_result.answer.encoded = e_call.text

\* ------------------------------------------------------------------------
\* EmbeddingService.generate_message_embedding and
\* generate_patient_memory_embedding: the text of an entity, then
\* generate_embedding. A search result or a metadata dict is a function from
\* its keys to texts.
\* ------------------------------------------------------------------------
RECURSIVE snippets_from(_, _, _)
snippets_from(search_results, i, snippets) ==
  IF i > Len(search_results) THEN snippets
  ELSE IF "snippet" \in DOMAIN search_results[i]
    THEN snippets_from(search_results, i + 1, Append(snippets, search_results[i].snippet))
  ELSE snippets_from(search_results, i + 1, snippets)

message_text(content, search_results) ==
  LET snippets == snippets_from(FirstN(search_results, 3), 1, <<>>)
      text_parts == IF snippets # <<>>
                      THEN <<content, <<"C", "o", "n", "t", "e", "x", "t", ":", " ">> \o JoinWith(snippets, <<" ">>)>>
                      ELSE <<content>>
  IN  JoinWith(text_parts, <<".", " ">>)

generate_message_embedding(self, content, search_results) ==
  EmbeddingService_generate_embedding(self, message_text(content, search_results))

memory_text(entity_name, entity_type, relationships, metadata) ==
  LET rel_summaries == rel_parts_from(relationships, 1, <<>>)
      text_parts ==
        << entity_type \o <<":", " ">> \o entity_name >>
        \o (IF rel_summaries # <<>>
              THEN << <<"R", "e", "l", "a", "t", "i", "o", "n", "s", "h", "i", "p", "s", ":", " ">> \o JoinWith(rel_summaries, <<",", " ">>) >> ELSE <<>>)
        \o (IF "description" \in DOMAIN metadata
              THEN << <<"D", "e", "s", "c", "r", "i", "p", "t", "i", "o", "n", ":", " ">> \o metadata["description"] >> ELSE <<>>)
        \o (IF "severity" \in DOMAIN metadata
              THEN << <<"S", "e", "v", "e", "r", "i", "t", "y", ":", " ">> \o metadata["severity"] >> ELSE <<>>)
        \o (IF "status" \in DOMAIN metadata
              THEN << <<"S", "t", "a", "t", "u", "s", ":", " ">> \o metadata["status"] >> ELSE <<>>)
  IN  JoinWith(text_parts, <<".", " ">>)

generate_patient_memory_embedding(self, entity_name, entity_type, relationships, metadata) ==
  EmbeddingService_generate_embedding(
    self, memory_text(entity_name, entity_type, relationships, metadata))

\* ------------------------------------------------------------------------
\* services/db_operations.py: create_message (181-244) and
\* create_patient_memory (258-314)
\* store: "ok", "error" (the commit fails for a reason of the database)
\* ------------------------------------------------------------------------
\* lines 208-220 and 285-297: the guarded, best-effort embedding; embed is
\* the outcome of the domain-specific generator
content_embedding_of(generate, name, provider, embed) ==
  IF ~ (generate /\ Truthy(name) /\ Truthy(Strip(name)))
    THEN [value |-> NoVector, attempted |-> FALSE, warned |-> FALSE]
  ELSE IF provider.outcome = "unavailable" \/ embed.raised
    THEN [value |-> NoVector, attempted |-> TRUE, warned |-> TRUE]
  ELSE [value |-> embed.value, attempted |-> TRUE, warned |-> FALSE]

\* db.add and db.commit: the contentEmbedding column is Vector(384), a
\* vector of another length is refused when the statement is built
insert_row(rows, row, store) ==
  IF store # "ok" \/ ~ CastsToStoredVector(row.content_embedding)
    THEN [raised |-> TRUE, rows |-> rows]
    ELSE [raised |-> FALSE, rows |-> Append(rows, row)]

\* create_message with generate_embedding as the caller gives it
create_message_embedded(rows, content, search_results, generate, provider, store) ==
  LET content_embedding ==
        content_embedding_of(generate, content, provider,
                             generate_message_embedding(provider, content, search_results))
      inserted == insert_row(rows, [table |-> "messages", content |-> content,
                                    content_embedding |-> content_embedding.value], store)
  IN  [raised |-> inserted.raised, rows |-> inserted.rows,
       attempted |-> content_embedding.attempted, warned |-> content_embedding.warned,
       generated |-> content_embedding.value]

create_patient_memory(rows, entity_type, entity_name, relationships, metadata, generate, provider, store) ==
  LET content_embedding ==
        content_embedding_of(generate, entity_name, provider,
                             generate_patient_memory_embedding(
                               provider, entity_name, entity_type, relationships, metadata))
      inserted == insert_row(rows, [table |-> "patientMemory", content |-> entity_name,
                                    content_embedding |-> content_embedding.value], store)
  IN  [raised |-> inserted.raised, rows |-> inserted.rows,
       attempted |-> content_embedding.attempted, warned |-> content_embedding.warned,
       generated |-> content_embedding.value]

\* ------------------------------------------------------------------------
\* Specification of the persistence of an entity with its embedding
\* ------------------------------------------------------------------------
cough == <<"c", "o", "u", "g", "h">>

PersistContents == {fever, <<>>, <<" ">>}

PersistSearchResults == {<<>>, <<[title |-> flu, url |-> url_x, snippet |-> cough]>>}

PersistRelationships ==
  {<<>>, <<[type |-> <<"h", "a", "s">>, relatedEntity |-> cough]>>}

PersistMetadata == {EmptyDict, [description |-> flu]}

PersistCalls ==
  {[NoPersistCall EXCEPT !.op = "create_message", !.content = c,
                         !.search_results = sr, !.generate_embedding = g] :
     c \in PersistContents, sr \in PersistSearchResults, g \in BOOLEAN}
  \cup
  {[NoPersistCall EXCEPT !.op = "create_patient_memory", !.content = c,
                         !.relationships = rel, !.metadata = md,
                         !.generate_embedding = g] :
     c \in PersistContents, rel \in PersistRelationships, md \in PersistMetadata,
     g \in BOOLEAN}

StoreOutcomes == {"ok", "error"}

InitPersist ==
  /\ p_call \in PersistCalls
  /\ p_rows = <<>>
  /\ p_result = NoPersistResult
  /\ p_pc = "called"
  /\ IdleNormalize
  /\ IdleResults
  /\ IdleSearch
  /\ IdleChat
  /\ IdleSingleton
  /\ IdleEmbed
  /\ IdleAssemble
  /\ IdleTool

PersistResult(created, provider, store) ==
  [raised |-> created.raised, attempted |-> created.attempted, warned |-> created.warned,
   generated |-> created.generated, provider |-> provider, store |-> store]

CreateMessage(provider, store) ==
  /\ p_pc = "called"
  /\ p_call.op = "create_message"
  /\ LET created == create_message_embedded(p_rows, p_call.content, p_call.search_results,
                                            p_call.generate_embedding, provider, store)
     IN  /\ p_rows' = created.rows
         /\ p_result' = PersistResult(created, provider, store)
  /\ p_pc' = "done"
  /\ UNCHANGED p_call
  /\ UNCHANGED <<normVars, resultVars, searchVars, chatVars, singletonVars, embedVars,
                 assembleVars, toolVars>>

CreatePatientMemory(provider, store) ==
  /\ p_pc = "called"
  /\ p_call.op = "create_patient_memory"
  /\ LET created == create_patient_memory(p_rows, condition, p_call.content,
                                          p_call.relationships, p_call.metadata,
                                          p_call.generate_embedding, provider, store)
     IN  /\ p_rows' = created.rows
         /\ p_result' = PersistResult(created, provider, store)
  /\ p_pc' = "done"
  /\ UNCHANGED p_call
  /\ UNCHANGED <<normVars, resultVars, searchVars, chatVars, singletonVars, embedVars,
                 assembleVars, toolVars>>

NextPersist ==
  \E provider \in Providers, store \in StoreOutcomes :
    \/ CreateMessage(provider, store)
    \/ CreatePatientMemory(provider, store)

SpecPersist == InitPersist /\ [][NextPersist]_vars

\* ------------------------------------------------------------------------
\* C17: create_message and create_patient_memory persist exactly one row
\* whether the embedding is generated, fails on empty input or fails with a
\* provider error; on failure the row is stored with the embedding absent
\* and no error reaches the caller.
\* ------------------------------------------------------------------------
\* the call asked for an embedding and got none
EmbeddingFailed ==
  /\ p_call.generate_embedding
  /\ \/ ~ NonBlankText(p_call.content)
     \/ p_result.provider.outcome # "ok"

C17_OneRowWhateverTheEmbedding ==
  (p_pc = "done" /\ p_result.store = "ok") =>
    /\ ~ p_result.raised
    /\ Len(p_rows) = 1
    /\ p_rows[1].content = p_call.content
    /\ EmbeddingFailed => p_rows[1].content_embedding = NoVector

\* the same for the embedding failures alone, and for the LOCAL mode
C17_OneRowWhenEmbeddingFails ==
  (p_pc = "done" /\ p_result.store = "ok"
     /\ (EmbeddingFailed \/ ~ p_call.generate_embedding
           \/ p_result.provider.mode = "LOCAL")) =>
    /\ ~ p_result.raised
    /\ Len(p_rows) = 1
    /\ p_rows[1].content = p_call.content
    /\ EmbeddingFailed => p_rows[1].content_embedding = NoVector

\* OPENAI mode: the embedding is generated and the row is refused
C17_GeneratedVectorRefused ==
  /\ p_pc = "done"
  /\ p_call.op = "create_message"
  /\ p_call.content = fever
  /\ p_result.provider = [mode |-> "OPENAI", outcome |-> "ok"]
  /\ p_result.store = "ok"
  /\ p_result.generated = 1536
  /\ p_result.raised
  /\ p_rows = <<>>

\* ------------------------------------------------------------------------
\* Specification of the context assembly: services/perplexity.py
\* build_patient_memory_prompt_from_vector on the matches of a search,
\* descending by similarity
\* ------------------------------------------------------------------------
rash == <<"r", "a", "s", "h">>

gout == <<"g", "o", "u", "t">>

\* the memories that a search may match, with their similarity in percent
MatchPool ==
  {Memory("m1", "u1", flu, 100),
   Memory("m2", "u1", asthma, 95),
   [Memory("m3", "u1", cough, 80) EXCEPT
      !.relationships = <<[type |-> <<"h", "a", "s">>, relatedEntity |-> fever]>>],
   Memory("m4", "u1", rash, 70),
   [Memory("m5", "u1", gout, 70) EXCEPT !.metadata = [description |-> hello]],
   Memory("m6", "u1", fever, 69),
   Memory("m7", "u1", hello, 0)}

\* what the index returns: distinct rows, descending by similarity
MatchLists ==
  {ms \in SeqsUpTo(MatchPool, MaxMatches) :
     /\ \A i, j \in 1..Len(ms) : i # j => ms[i] # ms[j]
     /\ \A i \in 1..(Len(ms) - 1) : ms[i].similarity >= ms[i + 1].similarity}

InitAssemble ==
  /\ a_results \in MatchLists
  /\ a_context = <<>>
  /\ a_pc = "called"
  /\ IdleNormalize
  /\ IdleResults
  /\ IdleSearch
  /\ IdleChat
  /\ IdleSingleton
  /\ IdleEmbed
  /\ IdlePersist
  /\ IdleTool

BuildPatientMemoryPrompt ==
  /\ a_pc = "called"
  /\ a_context' = build_patient_memory_prompt_from_vector(a_results)
  /\ a_pc' = "done"
  /\ UNCHANGED a_results
  /\ UNCHANGED <<normVars, resultVars, searchVars, chatVars, singletonVars, embedVars,
                 persistVars, toolVars>>

NextAssemble == BuildPatientMemoryPrompt

SpecAssemble == InitAssemble /\ [][NextAssemble]_vars

\* ------------------------------------------------------------------------
\* C19: build_patient_memory_prompt_from_vector omits every match whose
\* similarity is below 0.7, includes every match with similarity >= 0.7,
\* lists the included matches in the order of its input, and returns the
\* empty string when no match remains.
\* ------------------------------------------------------------------------
AtLeastSeventy(match) == match.similarity >= 70

\* the lines of the given matches under the heading, as the prompt has them
Listing(matches) ==
  <<"Relevant Patient History (from previous conversations):">>
  \o JoinWith([i \in 1..Len(matches) |-> memory_line(matches[i])], <<NL>>)
  \o <<"Use this context when relevant to the current question.">>

C19_ListsMatchesFromSeventyInOrder ==
  a_pc = "done" =>
    LET included == SelectSeq(a_results, AtLeastSeventy)
    IN  IF included = <<>> THEN a_context = <<>>
        ELSE a_context = Listing(included)

\* a match above, one at and one below 0.7: the first two are listed
C19_Witness ==
  /\ a_pc = "done"
  /\ Len(a_results) = 3
  /\ a_results[1].similarity = 95
  /\ a_results[2].similarity = 70
  /\ a_results[3].similarity = 69
  /\ a_context = Listing(SubSeq(a_results, 1, 2))

\* ------------------------------------------------------------------------
\* Specification of the classifier and the prompt builder called on their
\* own (services/perplexity.py is_medical_query 53-80, build_system_prompt
\* 83-172)
\* ------------------------------------------------------------------------
fever_and_cough ==
  <<"I", " ", "h", "a", "v", "e", " ", "h", "a", "d", " ", "a", " ", "f", "e", "v",
    "e", "r", " ", "a", "n", "d", " ", "c", "o", "u", "g", "h", " ", "f", "o", "r",
    " ", "t", "h", "r", "e", "e", " ", "d", "a", "y", "s">>

hi_there == <<"h", "i", " ", "t", "h", "e", "r", "e">>

\* the upper-case letter of a lower-case one
UpperOf(c) ==
  IF \E u \in UpperCase : LowerOf[u] = c THEN CHOOSE u \in UpperCase : LowerOf[u] = c
  ELSE c

Upper(s) == [i \in 1..Len(s) |-> UpperOf(s[i])]

BaseQuestions ==
  { hi_there, fever_and_cough, hello, fever, <<>>,
    <<"h">>, <<"h", "i">>, <<"h", "i", "c", "c", "u", "p", "s">>,
    <<"i", " ", "a", "m", " ", "i", "l", "l">>, <<"i", "'", "m">>, <<"i">>,
    <<"o", "k">>, <<"o", "k", " ", "t", "h", "e", "n">>, <<"o", "k", "a", "y">>,
    <<"o", "k", NL, "f", "l", "u">>,
    <<"n", "o">>, <<"n", "o", "p", "e">>, <<"n", "o", " ", "p", "a", "i", "n">>,
    <<"n", "o", "s", "e">>,
    <<"c", "o", "o", "l">>, <<"c", "o", "o", "l", "s">>,
    <<"g", "o", "o", "d">>, <<"g", "o", "o", "d", " ", "t", "o">>,
    <<"g", "o", "o", "d", "b", "y", "e">>,
    <<"t", "y">>, <<"t", "y", "p", "h", "u", "s">>,
    <<"d", "o", " ", "y", "o", "u", " ", "k", "n", "o", "w">>,
    <<"d", "o", " ", "y", "o", "u", " ", "k", "n", "o", "w", " ", "m", "e">>,
    <<"f", "l", "u", " ", "h", "i">> }

LeadingPads == {<<>>, <<" ">>, <<"\t", NL>>}

TrailingPads == {<<>>, <<" ">>, <<NL>>}

Questions ==
  {lead \o cased \o trail :
     lead \in LeadingPads, trail \in TrailingPads,
     cased \in UNION {{b, Upper(b)} : b \in BaseQuestions}}

\* the values of a preference field; Missing is a key that is not in the dict
Missing == "<missing>"

PrefChoices ==
  [ageGroup : {Missing, None, "young", "middle-aged", "old"},
   responseStyle : {Missing, None, "simple", "professional"},
   languageComplexity : {Missing, None, "technical"},
   includeMedicalTerms : {Missing, None, "False", "True"},
   responseLength : {Missing, None, "brief", "concise", "comprehensive"}]

PrefKeys ==
  {"ageGroup", "responseStyle", "languageComplexity", "includeMedicalTerms",
   "responseLength"}

\* the preferences dict of a choice: the keys that are not missing
PrefsOf(choice) == [k \in {key \in PrefKeys : choice[key] # Missing} |-> choice[k]]

\* the same preferences under the snake_case keys
SnakeOf ==
  [ageGroup |-> "age_group", responseStyle |-> "response_style",
   languageComplexity |-> "language_complexity",
   includeMedicalTerms |-> "include_medical_terms",
   responseLength |-> "response_length"]

SnakePrefs ==
  { [k \in {SnakeOf[key] : key \in PrefKeys} |->
       CASE k = "age_group" -> age
         [] k = "response_length" -> length
         [] OTHER -> None] :
      age \in {None, "old"}, length \in {None, "brief"} }

ann == <<"A", "n", "n">>

Profiles ==
  { EmptyDict, [name |-> ann], [name |-> <<>>, address |-> NoneText],
    [name |-> ann, address |-> hello, bio |-> fever] }

\* user_context: absent, without sections, with a preferences dict (as
\* send_message builds it), with a profile, or with a section that is None
PromptContexts ==
  {EmptyDict}
    \cup {ContextOf(PrefsOf(choice)) : choice \in PrefChoices}
    \cup {ContextOf(prefs) : prefs \in SnakePrefs}
    \cup {[profile |-> profile] : profile \in Profiles}
    \cup {[preferences |-> PrefsOf(choice), profile |-> profile] :
            choice \in {c \in PrefChoices : c.responseStyle = Missing
                                            /\ c.languageComplexity = Missing
                                            /\ c.includeMedicalTerms = Missing},
            profile \in Profiles}
    \cup {ContextOf(NoneDict), [profile |-> NoneDict]}

PromptCalls ==
  {[op |-> "is_medical_query", question |-> question, user_context |-> EmptyDict,
    is_medical |-> TRUE] : question \in Questions}
    \cup {[op |-> "build_system_prompt", question |-> <<>>,
           user_context |-> context, is_medical |-> is_medical] :
            context \in PromptContexts, is_medical \in BOOLEAN}

InitPrompt ==
  /\ q_call \in PromptCalls
  /\ q_result = NoPromptResult
  /\ q_pc = "called"
  /\ IdleNormalize
  /\ IdleResults
  /\ IdleSearch
  /\ IdleChat
  /\ IdleServiceParts
  /\ IdleBackfill

IsMedicalQuery ==
  /\ q_pc = "called"
  /\ q_call.op = "is_medical_query"
  /\ q_result' = [NoPromptResult EXCEPT !.is_medical = is_medical_query(q_call.question)]
  /\ q_pc' = "done"
  /\ UNCHANGED q_call
  /\ UNCHANGED <<normVars, resultVars, searchVars, chatVars, serviceVars, backfillVars,
                 storeVars>>

\* prefs.get and profile.get raise AttributeError when the section is None
BuildSystemPrompt ==
  /\ q_pc = "called"
  /\ q_call.op = "build_system_prompt"
  /\ q_result' =
       IF \/ section_of(q_call.user_context, "preferences") = NoneDict
          \/ section_of(q_call.user_context, "profile") = NoneDict
         THEN [NoPromptResult EXCEPT !.raised = TRUE]
         ELSE [NoPromptResult EXCEPT
                 !.prompt = build_system_prompt(q_call.user_context, q_call.is_medical)]
  /\ q_pc' = "done"
  /\ UNCHANGED q_call
  /\ UNCHANGED <<normVars, resultVars, searchVars, chatVars, serviceVars, backfillVars,
                 storeVars>>

NextPrompt == IsMedicalQuery \/ BuildSystemPrompt

SpecPrompt == InitPrompt /\ [][NextPrompt]_vars

Prompted(op) == q_pc = "done" /\ q_call.op = op

\* the text without its leading and trailing whitespace, in lower case
TrimmedLower(text) ==
  LET kept == {i \in 1..Len(text) : text[i] \notin Whitespace}
  IN  IF kept = {} THEN <<>>
      ELSE LET first == CHOOSE i \in kept : \A j \in kept : i <= j
               last == CHOOSE i \in kept : \A j \in kept : j <= i
           IN  Lower(SubSeq(text, first, last))

StartsWithCasualPrefix(text) ==
  \E n \in 1..Len(text) : SubSeq(text, 1, n) \in casual_prefix_patterns

IsAcknowledgement(text) == text \in casual_whole_patterns

\* C21: is_medical_query answers for every text, and its answer is fixed by
\* the trimmed, lower-cased text: casual exactly when that text starts with a
\* casual prefix pattern or is one acknowledgement token, domain otherwise;
\* "hi there" is casual, "I have had a fever and cough for three days" is
\* domain.
C21_CasualExactlyByPattern ==
  Prompted("is_medical_query") =>
    LET text == TrimmedLower(q_call.question)
    IN  /\ q_result.is_medical \in BOOLEAN
        /\ ~ q_result.raised
        /\ q_result.is_medical = ~ (StartsWithCasualPrefix(text) \/ IsAcknowledgement(text))
        /\ text = hi_there => ~ q_result.is_medical
        /\ text = Lower(fever_and_cough) => q_result.is_medical

\* "hi there", padded and in upper case, was classified casual
C21_Witness ==
  /\ Prompted("is_medical_query")
  /\ q_call.question = <<" ">> \o Upper(hi_there) \o <<NL>>
  /\ ~ q_result.is_medical

\* the modifier texts of each preference field, in both templates
Modifiers ==
  [ageGroup |-> {"TONE: YOUNG, casual", "TONE: SENIOR, patient", "IMPORTANT: User is YOUNG",
                 "IMPORTANT: User is MIDDLE-AGED", "IMPORTANT: User is SENIOR"},
   responseStyle |-> {"CRITICAL: EXTREMELY simple", "CRITICAL: VERY detailed"},
   languageComplexity |-> {"MANDATORY: Avoid ALL medical jargon",
                           "MANDATORY: Use medical terminology"},
   includeMedicalTerms |-> {"Avoid formal medical terms unless necessary. "},
   responseLength |-> {"LENGTH: 1-2 SHORT sentences", "LENGTH: AT LEAST 4-5 sentences",
                       "LENGTH: EXTREMELY brief", "LENGTH: Concise - 2-3 paragraphs",
                       "LENGTH: COMPREHENSIVE", "LENGTH: CONCISE (2-4 paragraphs maximum)"}]

DefaultLength == "LENGTH: CONCISE (2-4 paragraphs maximum)"

FragmentsOf(prompt) == {prompt[i] : i \in 1..Len(prompt)}

SectionsAreDicts(context) ==
  \A key \in DOMAIN context : context[key] # NoneDict

\* the field is missing from the preferences or its value is None
FieldAbsent(context, field) ==
  \/ "preferences" \notin DOMAIN context
  \/ LET prefs == context["preferences"]
     IN  /\ field \in DOMAIN prefs => prefs[field] = None
         /\ SnakeOf[field] \in DOMAIN prefs => prefs[SnakeOf[field]] = None

\* C22, as stated: for every combination of present and absent fields
\* build_system_prompt returns a prompt, and an absent preference field adds
\* no modifier text, in both templates.
C22_AbsentFieldAddsNothing ==
  Prompted("build_system_prompt") /\ SectionsAreDicts(q_call.user_context) =>
    /\ ~ q_result.raised
    /\ \A field \in PrefKeys :
         FieldAbsent(q_call.user_context, field) =>
           FragmentsOf(q_result.prompt) \cap Modifiers[field] = {}

\* C22: build_system_prompt returns a prompt for every combination of
\* present and absent fields of a preferences and a profile dict and for an
\* absent user context; an absent preference field adds no modifier text,
\* except that the domain template then holds the default length line. A
\* 'preferences' or 'profile' entry that is None makes it raise.
C22_AbsentFieldAddsOnlyDefaultLength ==
  Prompted("build_system_prompt") =>
    IF SectionsAreDicts(q_call.user_context)
      THEN /\ ~ q_result.raised
           /\ q_result.prompt # <<>>
           /\ \A field \in PrefKeys :
                FieldAbsent(q_call.user_context, field) =>
                  FragmentsOf(q_result.prompt) \cap Modifiers[field] =
                    IF field = "responseLength" /\ q_call.is_medical
                      THEN {DefaultLength} ELSE {}
      ELSE q_result.raised

\* the domain prompt for preferences whose five fields are all None
C22_Witness ==
  /\ Prompted("build_system_prompt")
  /\ q_call.is_medical
  /\ q_call.user_context = ContextOf(camelPrefs(None, None, None, None, None))
  /\ q_result.prompt =
       <<"You are a trusted medical AI assistant. ", DefaultLength, "Guidelines">>

\* ------------------------------------------------------------------------
\* The store and the chat requests (specification Spec)
\* ------------------------------------------------------------------------
\* the rows a request's thread has written
RowsOf(r) == SelectSeq(db_messages, LAMBDA m : m.request = r)

InSeq(seq, x) == \E i \in 1..Len(seq) : seq[i] = x

\* C23: a temporary chat (no conversationId) reads no history, starts no
\* background task, writes no row, and its response carries conversationId
\* null.
C23_TemporaryChatLeavesStore ==
  \A r \in Requests :
    pc[r] # "idle" /\ is_temporary_chat(r) =>
      /\ ~ InSeq(calls[r], "history")
      /\ ~ InSeq(calls[r], "thread")
      /\ session_context[r] = <<>>
      /\ dispatches[r] = 0
      /\ thread[r] = "none"
      /\ writes[r] = NoWrites
      /\ RowsOf(r) = <<>>
      /\ response[r].conversationId = None

\* a temporary chat was answered by the model and returned
C23_Witness ==
  \E r \in Requests :
    /\ is_temporary_chat(r)
    /\ pc[r] = "returned"
    /\ response[r].status = 200
    /\ response[r].content = reply
    /\ model_calls[r] = 1

\* ------------------------------------------------------------------------
\* services/db_operations.py: backfill_message_embeddings (565-616) and
\* backfill_patient_memory_embeddings (619-671)
\* rows: the table; chosen: the positions the query returned; outcomes: how
\* the provider behaves for each position; store: "ok" or "error" (commit)
\* ------------------------------------------------------------------------
\* lines 597 and 651: the row has a non-blank content / entity_name
HasContent(row) == TruthyValue(row.content) /\ Truthy(Strip(row.content))

\* lines 599-604 and 653-658
backfill_embedding(table, self, row) ==
  IF table = "messages"
    THEN generate_message_embedding(self, row.content, <<>>)
    ELSE generate_patient_memory_embedding(self, row.content, <<"c", "o", "n", "d", "i", "t", "i", "o", "n">>, <<>>, EmptyDict)

\* the body shared by the two functions: every chosen row with content gets
\* what the generator returned and is counted; one commit at the end
backfill_embeddings(rows, chosen, table, mode, available, outcomes, store) ==
  LET embedding(i) == backfill_embedding(table, [mode |-> mode, outcome |-> outcomes[i]], rows[i])
      assigned == {i \in chosen : HasContent(rows[i]) /\ ~ embedding(i).raised}
      updated == [i \in DOMAIN rows |->
                    IF i \in assigned
                      THEN [rows[i] EXCEPT !.content_embedding = embedding(i).value]
                      ELSE rows[i]]
      refused == \E i \in assigned : ~ CastsToStoredVector(embedding(i).value)
  IN  IF chosen = {}
        THEN [rows |-> rows, updated_count |-> 0, rolled_back |-> FALSE]
      ELSE IF ~ available \/ store # "ok" \/ refused
        THEN [rows |-> rows, updated_count |-> 0, rolled_back |-> TRUE]
      ELSE [rows |-> updated, updated_count |-> Cardinality(assigned),
            rolled_back |-> FALSE]

\* the positions of the rows without an embedding
MissingEmbedding(rows) == {i \in DOMAIN rows : rows[i].content_embedding = NoVector}

\* query.limit(batch_size).all(): the query has no ORDER BY, any batch_size
\* of the rows without an embedding (all of them when there are fewer)
Batches(rows, batch_size) ==
  LET missing == MissingEmbedding(rows)
      size == IF batch_size < Cardinality(missing) THEN batch_size ELSE Cardinality(missing)
  IN  {chosen \in SUBSET missing : Cardinality(chosen) = size}

\* ------------------------------------------------------------------------
\* Specification of the backfill: one call (the routes of
\* routes/vector_search.py 173-184, 210-216) or the loop of
\* scripts/backfill_embeddings.py (52-93, 96-137)
\* ------------------------------------------------------------------------
MaxRows == 3

BackfillRows ==
  {[content |-> content, content_embedding |-> NoVector] :
     content \in {fever, flu, <<" ">>}}
    \cup {[content |-> fever, content_embedding |-> StoredDimension]}

BatchSizes == {1, 2, 100}

BackfillCalls ==
  [op : {"backfill_once", "backfill_all"}, table : {"messages", "patientMemory"},
   batch_size : BatchSizes, mode : Modes]

InitBackfill ==
  /\ b_call \in BackfillCalls
  /\ b_rows \in SeqsUpTo(BackfillRows, MaxRows)
  /\ b_result = NoBackfillResult
  /\ b_pc = "ready"
  /\ IdleNormalize
  /\ IdleResults
  /\ IdleSearch
  /\ IdleChat
  /\ IdleServiceParts
  /\ IdlePrompt

BatchResult(chosen, done) ==
  [updated_count |-> done.updated_count, selected |-> Cardinality(chosen),
   embedded |-> Cardinality(MissingEmbedding(b_rows) \ MissingEmbedding(done.rows)),
   rolled_back |-> done.rolled_back]

\* backfill_messages / backfill_memories: one call, the count is returned
BackfillOnce(available, store) ==
  /\ b_pc = "ready"
  /\ b_call.op = "backfill_once"
  /\ \E chosen \in Batches(b_rows, b_call.batch_size),
        outcomes \in [DOMAIN b_rows -> ProviderOutcomes] :
       LET done == backfill_embeddings(b_rows, chosen, b_call.table, b_call.mode,
                                       available, outcomes, store)
       IN  /\ b_rows' = done.rows
           /\ b_result' = BatchResult(chosen, done)
  /\ b_pc' = "returned"
  /\ UNCHANGED b_call
  /\ UNCHANGED <<normVars, resultVars, searchVars, chatVars, serviceVars, promptVars,
                 storeVars>>

\* backfill_all_messages 57-71: nothing is missing, or the loop is entered
StartBackfillAll ==
  /\ b_pc = "ready"
  /\ b_call.op = "backfill_all"
  /\ b_pc' = IF MissingEmbedding(b_rows) = {} THEN "stopped" ELSE "calling"
  /\ UNCHANGED <<b_call, b_rows, b_result>>
  /\ UNCHANGED <<normVars, resultVars, searchVars, chatVars, serviceVars, promptVars,
                 storeVars>>

\* lines 76-78: the loop calls the batch function
CallBatch(available, store) ==
  /\ b_pc = "calling"
  /\ \E chosen \in Batches(b_rows, b_call.batch_size),
        outcomes \in [DOMAIN b_rows -> ProviderOutcomes] :
       LET done == backfill_embeddings(b_rows, chosen, b_call.table, b_call.mode,
                                       available, outcomes, store)
       IN  /\ b_rows' = done.rows
           /\ b_result' = BatchResult(chosen, done)
  /\ b_pc' = "testing"
  /\ UNCHANGED b_call
  /\ UNCHANGED <<normVars, resultVars, searchVars, chatVars, serviceVars, promptVars,
                 storeVars>>

\* lines 80-90: updated == 0 ends the loop, otherwise the next batch
TestUpdated ==
  /\ b_pc = "testing"
  /\ b_pc' = IF b_result.updated_count = 0 THEN "stopped" ELSE "calling"
  /\ UNCHANGED <<b_call, b_rows, b_result>>
  /\ UNCHANGED <<normVars, resultVars, searchVars, chatVars, serviceVars, promptVars,
                 storeVars>>

NextBackfill ==
  \/ \E available \in BOOLEAN, store \in StoreOutcomes :
       \/ BackfillOnce(available, store)
       \/ CallBatch(available, store)
  \/ StartBackfillAll
  \/ TestUpdated

SpecBackfill == InitBackfill /\ [][NextBackfill]_vars

\* the loop is scheduled as long as it can take a step
SpecBackfillLive == SpecBackfill /\ WF_vars(NextBackfill)

\* C24, as stated: the count a backfill call returns is the number of rows
\* whose embedding went from absent to present in that call; a row whose
\* generation yielded no vector is not counted.
C24_CountIsRowsEmbedded ==
  b_pc \in {"returned", "testing"} => b_result.updated_count = b_result.embedded

\* what the count is: 0 after a rollback, otherwise at least the number of
\* rows that got a vector and at most the number of rows selected
C24_CountIsRowsAttempted ==
  b_pc \in {"returned", "testing"} =>
    /\ b_result.rolled_back => b_result.updated_count = 0 /\ b_result.embedded = 0
    /\ b_result.embedded <= b_result.updated_count
    /\ b_result.updated_count <= b_result.selected

\* a call returned 1 although the one row it selected still has no embedding
C24_CountedWithoutVector ==
  /\ b_pc = "returned"
  /\ b_result.updated_count = 1
  /\ b_result.embedded = 0
  /\ MissingEmbedding(b_rows) # {}

\* C25, as stated: the backfill loop terminates for every finite table and
\* every behaviour of the provider.
C25_BackfillLoopTerminates == <>(b_pc \in {"returned", "stopped"})

\* the loop goes on after a batch that embedded nothing
C25_LoopRepeatsWithoutProgress ==
  /\ b_pc = "testing"
  /\ b_result.updated_count > 0
  /\ b_result.embedded = 0

\* the handler of the request failed: it answered with an error
HandlerFailed(r) == response[r].status >= 400 \/ model_outcome[r] = "failed"

\* C26: when the model call or an earlier step of send_message fails, no
\* background task is started and no message of that request, neither the
\* user's nor an assistant's, is ever stored.
C26_FailedRequestLeavesStore ==
  \A r \in Requests :
    HandlerFailed(r) =>
      /\ dispatches[r] = 0
      /\ ~ InSeq(calls[r], "thread")
      /\ writes[r] = NoWrites
      /\ RowsOf(r) = <<>>
      /\ \A i \in 1..Len(db_messages) :
           db_messages[i].conversation_id = request[r].conversation_id =>
             db_messages[i].request # r

\* the model call of a regular chat failed while the turn of another request
\* on the same conversation is stored
C26_Witness ==
  \E r, o \in Requests :
    /\ model_outcome[r] = "failed"
    /\ response[r].status = 500
    /\ request[r].conversation_id = "c1"
    /\ thread[o] = "finished"
    /\ Len(db_messages) = 2

\* the roles of the rows a request's thread has written, in stored order
RolesOf(r) == [i \in 1..Len(RowsOf(r)) |-> RowsOf(r)[i].role]

FollowsOnConversation(a, b) ==
  /\ a \in request[b].after
  /\ request[a].conversation_id # None
  /\ request[a].conversation_id = request[b].conversation_id
  /\ InSeq(calls[b], "history")

\* C28, as stated: when the response of request a on a conversation was
\* returned before request b on it is received, the history b sends to the
\* model holds a's user message and a's assistant reply.
C28_CompletedTurnInNextContext ==
  \A a, b \in Requests :
    FollowsOnConversation(a, b) =>
      /\ InSeq(session_context[b], Msg("user", request[a].message))
      /\ InSeq(session_context[b], Msg("assistant", model_result[a].content))

\* what holds: the history b reads is the last two rows stored at that
\* moment, so it holds a's turn only as far as a's thread had stored it
C28_ContextIsStoredRows ==
  \A b \in Requests :
    InSeq(calls[b], "history") =>
      \A i \in 1..Len(session_context[b]) :
        \E j \in 1..Len(db_messages) :
          /\ db_messages[j].conversation_id = request[b].conversation_id
          /\ Msg(db_messages[j].role, db_messages[j].content) = session_context[b][i]

\* b was sent to the model with an empty history although a's response had
\* been returned before b arrived
C28_TurnMissingFromContext ==
  \E a, b \in Requests :
    /\ FollowsOnConversation(a, b)
    /\ session_context[b] = <<>>
    /\ model_calls[b] = 1
    /\ Len(sent[b]) = 2

\* the rows of a conversation in the order of their creation
MessagesOf(c) == SelectSeq(db_messages, LAMBDA m : m.conversation_id = c)

\* C29, as stated: in every interleaving of requests and background tasks
\* the stored messages of a conversation alternate user, assistant, and each
\* assistant message directly follows the user message it answers.
C29_StoredMessagesAlternate ==
  \A c \in ConversationIds :
    LET rows == MessagesOf(c)
    IN  \A i \in 1..Len(rows) :
          /\ rows[i].role = (IF i % 2 = 1 THEN "user" ELSE "assistant")
          /\ rows[i].role = "assistant" => rows[i - 1].request = rows[i].request

\* the threads of two requests interleaved: user, user, assistant, assistant
C29_InterleavedTurns ==
  \E c \in ConversationIds :
    /\ Len(MessagesOf(c)) = 4
    /\ [i \in 1..4 |-> MessagesOf(c)[i].role] = <<"user", "user", "assistant", "assistant">>

\* without overlap too: the assistant write of the first request failed
C29_UserFollowsUser ==
  \E c \in ConversationIds, r, o \in Requests :
    /\ thread[r] = "failed"
    /\ o \notin request[r].after /\ r \in request[o].after
    /\ Len(MessagesOf(c)) >= 2
    /\ MessagesOf(c)[1].role = "user" /\ MessagesOf(c)[1].request = r
    /\ MessagesOf(c)[2].role = "user" /\ MessagesOf(c)[2].request = o

\* ------------------------------------------------------------------------
\* Specification of the chat path together with the Conversation table:
\* the chat requests of Spec and routes/conversations.py delete_conversation
\* (135-144) with services/db_operations.py delete_conversation (157-174).
\* The conversation named in a request exists, was deleted, or was never
\* created; the Message model declares no foreign key (models.py 58).
\* ------------------------------------------------------------------------
InitStore ==
  /\ ChatStart("idle")
  /\ db_conversations \in SUBSET ConversationIds
  /\ IdleNormalize
  /\ IdleResults
  /\ IdleSearch
  /\ IdleServiceParts
  /\ IdleTool

\* the rows of the conversation are deleted, then the conversation, in one
\* transaction
DeleteConversation(conversation_id) ==
  /\ db_messages' = SelectSeq(db_messages, LAMBDA m : m.conversation_id # conversation_id)
  /\ db_conversations' = db_conversations \ {conversation_id}
  /\ UNCHANGED <<pc, request, session_context, user_context, sent, model_calls,
                 model_outcome, model_result, response, thread, dispatches, writes,
                 failures_logged, calls>>
  /\ UNCHANGED <<normVars, resultVars, searchVars, serviceVars, promptVars, backfillVars>>

NextStore ==
  \/ \E r \in Requests :
       \/ Receive(r)
       \/ LoadContext(r)
       \/ LoadContextFails(r)
       \/ CallPerplexityReturns(r)
       \/ CallPerplexityFails(r)
       \/ StartBackgroundSave(r)
       \/ Respond(r)
       \/ BackgroundBegin(r)
       \/ SaveUserMessage(r)
       \/ SaveUserMessageFails(r)
       \/ SaveAssistantMessage(r)
       \/ SaveAssistantMessageFails(r)
  \/ \E conversation_id \in ConversationIds : DeleteConversation(conversation_id)

SpecStore == InitStore /\ [][NextStore]_vars

\* C30, as stated: every stored message belongs to an existing
\* conversation, whatever send_message and delete_conversation do.
C30_MessageHasConversation ==
  \A i \in 1..Len(db_messages) : db_messages[i].conversation_id \in db_conversations

\* what delete_conversation itself ensures: right after it no message of the
\* deleted conversation is stored
C30_DeleteRemovesMessages ==
  [][\A c \in ConversationIds :
       DeleteConversation(c) => MessagesOf(c)' = <<>> /\ c \notin db_conversations']_vars

\* a background save stored a message after its conversation was deleted
C30_SavedAfterDelete ==
  \E r \in Requests :
    /\ thread[r] = "finished"
    /\ request[r].conversation_id \notin db_conversations
    /\ RolesOf(r) = <<"assistant">>
====
